---------------------------- MODULE Spec2Model ----------------------------
(***************************************************************************)
(* Model of the VLA inference backends (vla-inference/models): the         *)
(* load/predict/predict_batch/unload lifecycle of Pi0Model, OpenVLAModel   *)
(* and GR00TModel and their trajectory generators.                         *)
(*                                                                         *)
(* Floats are fixed-point integers in units of 1/Scale (1.0 = 10000).      *)
(* Strings the code inspects (lower(), "in") are sequences of one-letter   *)
(* strings.  None for an Optional list is the empty sequence NoAction;     *)
(* None for an Optional string is the value None.                          *)
(***************************************************************************)
EXTENDS Integers, Sequences, FiniteSets, TLC

VARIABLES models, last, log, server, metrics

vars == <<models, last, log, server, metrics>>

-----------------------------------------------------------------------------
(* Bounds of the model *)

\* predicts allowed on one instance between a load and the next unload
MaxSeq == 2

\* longest observation list handed to predict_batch
MaxBatch == 2

\* the number of predictions an instance from the factory makes per load
MaxFactorySeq == 1

\* the number of predictions per load of the OpenVLAModel whose history is
\* followed beyond its capacity
MaxHistorySeq == 11

-----------------------------------------------------------------------------
(* Numbers *)

Scale == 10000

One == Scale

\* the float n / d
Frac(n, d) == (n * Scale) \div d

\* round(a / b) for b > 0, half rounded up
RoundDiv(a, b) == (2 * a + b) \div (2 * b)

Min2(a, b) == IF b < a THEN b ELSE a

Max2(a, b) == IF b > a THEN b ELSE a

\* a list built element by element: the sequence f as a tuple, so that its
\* elements are computed once, when the list is built
List(f) == f \o << >>

\* fault: the value is passed on unclamped
Clamp_off(lo, hi, x) == x

\* max(lo, min(hi, x))
Clamp(lo, hi, x) == Max2(lo, Min2(hi, x))

\* 10000 * sin(k / 10), k = 0, 1, 2, ...   (entry k + 1)
SinTenth ==
   <<
      0, 998, 1987, 2955, 3894, 4794, 5646, 6442, 7174, 7833, 8415, 8912,
      9320, 9636, 9854, 9975, 9996, 9917, 9738, 9463, 9093, 8632, 8085, 7457,
      6755, 5985, 5155, 4274, 3350, 2392, 1411, 416, -584, -1577, -2555, -3508,
      -4425, -5298, -6119, -6878, -7568, -8183, -8716, -9162, -9516, -9775, -9937, -9999,
      -9962, -9825, -9589, -9258, -8835, -8323, -7728, -7055, -6313, -5507, -4646, -3739,
      -2794, -1822, -831, 168, 1165, 2151, 3115, 4048, 4941, 5784, 6570, 7290,
      7937, 8504, 8987, 9380, 9679, 9882, 9985, 9989, 9894, 9699, 9407, 9022,
      8546, 7985, 7344, 6630, 5849, 5010, 4121, 3191, 2229, 1245, 248, -752,
      -1743, -2718, -3665, -4575, -5440, -6251, -6999, -7677, -8278, -8797, -9228, -9566,
      -9809, -9954, -10000, -9946, -9792, -9540, -9193, -8755, -8228, -7620, -6935, -6181,
      -5366, -4496, -3582, -2632, -1656, -663, 336, 1332, 2315, 3275, 4202, 5087,
      5921, 6696, 7404, 8038, 8592, 9060, 9437, 9720, 9906, 9993, 9980, 9868,
      9657, 9349, 8948, 8457, 7883, 7229, 6503, 5712, 4864, 3967, 3031, 2065 >>

\* 10000 * sin(0.03 * n), n = 0, 1, 2, ...   (entry n + 1)
SinGrip ==
   <<
      0, 300, 600, 899, 1197, 1494, 1790, 2085, 2377, 2667, 2955, 3240,
      3523, 3802, 4078, 4350, 4618, 4882, 5141, 5396, 5646, 5891, 6131, 6365,
      6594, 6816, 7033, 7243, 7446, 7643, 7833, 8016, 8192, 8360, 8521, 8674,
      8820, 8957, 9086, 9208, 9320, 9425, 9521, 9608, 9687, 9757, 9819, 9871,
      9915, 9949, 9975, 9992, 9999, 9998, 9988, 9969, 9940, 9903, 9857, 9802,
      9738, 9666, 9585, 9495, 9396, 9290, 9174, 9051, 8919, 8780, 8632, 8477,
      8314, 8143, 7966, 7781, 7589, 7390, 7185, 6973, 6755, 6530, 6300, 6065,
      5823, 5577, 5325, 5069, 4808, 4543, 4274, 4001, 3724, 3444, 3161, 2875,
      2586, 2295, 2002, 1708, 1411, 1114, 815, 516, 216, -84, -384, -684,
      -982, -1281, -1577, -1873, -2167, -2459, -2748, -3035, -3320, -3601, -3880, -4154,
      -4425, -4692, -4955, -5213, -5467, -5716, -5959, -6197, -6430, -6657, -6878, -7092 >>

-----------------------------------------------------------------------------
(* The random module: random.uniform(a, b) *)

\* A random source fixes the level (0 = a, 1 = midpoint, 2 = b) of the n-th
\* draw of one predict call: "hi" always draws b, "alt" draws a, the
\* midpoint and b in turn.
RandomSources == {"hi", "alt"}

Level(src, n) ==
   CASE src = "hi" -> 2
     [] OTHER      -> n % 3

\* random.uniform(a, b), the n-th draw of the call
Uniform(a, b, src, n) == a + (Level(src, n) * (b - a)) \div 2

-----------------------------------------------------------------------------
(* Strings: str.lower() and the "in" operator on strings *)

Upper == <<"A", "B", "C", "D", "E", "F", "G", "H", "I", "J", "K", "L", "M",
           "N", "O", "P", "Q", "R", "S", "T", "U", "V", "W", "X", "Y", "Z">>

Lower == <<"a", "b", "c", "d", "e", "f", "g", "h", "i", "j", "k", "l", "m",
           "n", "o", "p", "q", "r", "s", "t", "u", "v", "w", "x", "y", "z">>

LowerChar(c) ==
   IF \E k \in 1..Len(Upper) : Upper[k] = c
   THEN Lower[CHOOSE k \in 1..Len(Upper) : Upper[k] = c]
   ELSE c

\* s.lower()
lower(s) == List([k \in 1..Len(s) |-> LowerChar(s[k])])

\* sub in s
Contains(sub, s) ==
   \E k \in 0..(Len(s) - Len(sub)) :
      \A n \in 1..Len(sub) : s[k + n] = sub[n]

-----------------------------------------------------------------------------
(* base.py: the value objects *)

None == "None"

\* Optional[List[float]] holding None
NoAction == << >>

\* Observation(camera_image, joint_positions, joint_velocities,
\*             language_instruction, timestamp, embodiment_tag, session_id);
\* the image bytes and the velocities are read by no backend.
Observation(jp, li, ts, tag, sid) ==
   [joint_positions |-> jp, language_instruction |-> li, timestamp |-> ts,
    embodiment_tag |-> tag, session_id |-> sid, none_attrs |-> {}]

\* obs with None in attribute attr; none_attrs names the attributes that
\* hold None
WithNone(obs, attr) == [obs EXCEPT !.none_attrs = @ \cup {attr}]

IsNone(obs, attr) == attr \in obs.none_attrs

\* the observations the model feeds to predict: the test suite's sample, one
\* without joints, one with seven joints outside [-1, 1], one with two joints
Observations ==
   { Observation(<<1000, 2000, 3000, 4000, 5000, 6000>>,
                 <<"p","i","c","k"," ","u","p">>, 0, "unitree_h1", "s1"),
     Observation(<< >>,
                 <<"P","l","a","c","e">>, 7, "franka_panda", None),
     Observation(<<20000, -30000, 9990, -9990, 10000, -10000, 5000>>,
                 <<"m","o","v","e">>, 0, "unknown_bot", "s2"),
     Observation(<<15000, -9995>>,
                 << >>, 3, "ur5", "s1") }

\* the observations predict_batch is fed lists of
BatchObservations ==
   { o \in Observations : o.embodiment_tag \in {"unitree_h1", "unknown_bot"} }

Action(jc, g, ts) ==
   [joint_commands |-> jc, gripper_command |-> g, timestamp |-> ts]

ActionChunk(acts, ms, ver, conf, sn) ==
   [actions |-> acts, inference_time_ms |-> ms, model_version |-> ver,
    confidence |-> conf, sequence_number |-> sn]

ModelInfo(name, version, dim, size, embodiments, width, height, base) ==
   [model_name |-> name, model_version |-> version, action_dim |-> dim,
    chunk_size |-> size, supported_embodiments |-> embodiments,
    image_width |-> width, image_height |-> height, base_model |-> base]

\* the outcome of a call: the instance afterwards, the exception raised (or
\* NoError) and the value returned (NoReturn when it raised or returns None)
NoError == [kind |-> "none", msg |-> << >>]

\* ret is the tuple of returned values: empty when the call raised or
\* returned None, <<v>> when it returned v
NoReturn == << >>

Return(v) == <<v>>

Outcome(m, e, r) == [model |-> m, err |-> e, ret |-> r]

\* what the interpreter raises on None[:6], on None + float and on
\* None.lower()
NotSubscriptable ==
   [kind |-> "TypeError", msg |-> <<"'NoneType' object is not subscriptable">>]

BadOperand ==
   [kind |-> "TypeError",
    msg |-> <<"unsupported operand type(s) for +: 'NoneType' and 'float'">>]

NoAttribute ==
   [kind |-> "AttributeError",
    msg |-> <<"'NoneType' object has no attribute 'lower'">>]

\* what leaves time.sleep when the caller's thread is interrupted
KeyboardInterrupt == [kind |-> "KeyboardInterrupt", msg |-> << >>]

-----------------------------------------------------------------------------
(* base.py: VLAModel *)

ClassName(m) ==
   CASE m.kind = "pi0"     -> "Pi0Model"
     [] m.kind = "openvla" -> "OpenVLAModel"
     [] OTHER              -> "GR00TModel"

is_loaded(m) == m.loaded

device(m) == m.device

NotLoadedError(m) ==
   [kind |-> "RuntimeError",
    msg  |-> <<ClassName(m), " model not loaded. ", "Call load() before predict().">>]

\* fault: the check never raises
check_loaded_off(m) == NoError

\* _check_loaded: the exception it raises, NoError when it returns
check_loaded(m) == IF ~m.loaded THEN NotLoadedError(m) ELSE NoError

\* fault: the padding to six entries is left out
SeedFromObservation_nopad(obs) ==
   LET jp == obs.joint_positions
       n  == Min2(6, Len(jp))
   IN  List([j \in 1..n |-> Clamp(-One, One, jp[j])])

\* fault: every joint position is taken, not the first six
SeedFromObservation_all(obs) ==
   LET jp == obs.joint_positions
       n  == Len(jp)
   IN  List([j \in 1..Max2(6, n) |->
              IF j <= n THEN Clamp(-One, One, jp[j]) ELSE 0])

\* the first six joint positions clamped to [-1, 1], padded with 0.0
SeedFromObservation(obs) ==
   LET jp == obs.joint_positions
       n  == Min2(6, Len(jp))
   IN  List([j \in 1..6 |-> IF j <= n THEN Clamp(-One, One, jp[j]) ELSE 0])

-----------------------------------------------------------------------------
(* pi0.py: Pi0Model *)

Pi0_MODEL_VERSION == "0.6.0-stub"

Pi0_CHUNK_SIZE == 16

Pi0_MIN_LATENCY_MS == 20

Pi0_MAX_LATENCY_MS == 50

Pi0_SUPPORTED_EMBODIMENTS == <<"unitree_h1", "so101_arm", "franka_panda", "aloha">>

Pi0_MODEL_NAME == "pi0-stub"
Pi0_BASE_MODEL == "pi0"
Pi0_ACTION_DIM == 7
Pi0_IMAGE_WIDTH == 224
Pi0_IMAGE_HEIGHT == 224

Pi0_model_info ==
   ModelInfo(Pi0_MODEL_NAME, Pi0_MODEL_VERSION, Pi0_ACTION_DIM, Pi0_CHUNK_SIZE,
             Pi0_SUPPORTED_EMBODIMENTS, Pi0_IMAGE_WIDTH, Pi0_IMAGE_HEIGHT,
             Pi0_BASE_MODEL)

Pi0_init ==
   [kind |-> "pi0", loaded |-> FALSE, device |-> "cpu", checkpoint_path |-> None,
    sequence_counter |-> 0, last_action |-> NoAction]

\* fault: the device argument is not recorded
Pi0_load_nodevice(m, checkpoint_path, dev) ==
   IF m.loaded
   THEN Outcome(m, NoError, NoReturn)
   ELSE Outcome([m EXCEPT !.checkpoint_path = checkpoint_path,
                          !.loaded = TRUE,
                          !.sequence_counter = 0,
                          !.last_action = NoAction],
                NoError, NoReturn)

Pi0_load(m, checkpoint_path, dev) ==
   IF m.loaded
   THEN Outcome(m, NoError, NoReturn)
   ELSE Outcome([m EXCEPT !.checkpoint_path = checkpoint_path,
                          !.device = dev,
                          !.loaded = TRUE,
                          !.sequence_counter = 0,
                          !.last_action = NoAction],
                NoError, NoReturn)

\* fault: the last action survives the unload
Pi0_unload_keeps(m) ==
   IF ~m.loaded
   THEN Outcome(m, NoError, NoReturn)
   ELSE Outcome([m EXCEPT !.loaded = FALSE,
                          !.sequence_counter = 0],
                NoError, NoReturn)

\* fault: unload puts the device back to its initial value
Pi0_unload_resets_device(m) ==
   IF ~m.loaded
   THEN Outcome(m, NoError, NoReturn)
   ELSE Outcome([m EXCEPT !.loaded = FALSE, !.device = "cpu",
                          !.sequence_counter = 0, !.last_action = NoAction],
                NoError, NoReturn)

Pi0_unload(m) ==
   IF ~m.loaded
   THEN Outcome(m, NoError, NoReturn)
   ELSE Outcome([m EXCEPT !.loaded = FALSE,
                          !.sequence_counter = 0,
                          !.last_action = NoAction],
                NoError, NoReturn)

\* fault: the phase starts again at 0 in every call
Pi0_phase_restarting(m, i) == i

\* (self._sequence_counter * CHUNK_SIZE + i), the phase in tenths of a radian

Pi0_phase(m, i) == m.sequence_counter * Pi0_CHUNK_SIZE + i

\* fault: the amplitude is 2.0 instead of 0.02
Pi0_delta_wide(ph, j) == RoundDiv(2 * SinTenth[ph + 5 * j + 1], 1)

\* 0.02 * sin(phase + j * 0.5)
Pi0_delta(ph, j) == RoundDiv(2 * SinTenth[ph + 5 * j + 1], 100)

\* 0.5 + 0.3 * sin(phase * 0.3), clamped to [0, 1]
Pi0_gripper(ph) ==
   Clamp(0, One, Frac(1, 2) + RoundDiv(3 * SinGrip[ph + 1], 10))

\* one pass of the inner loop: every joint advanced by its delta and clamped
Pi0_step(current, ph) ==
   List([j \in 1..Len(current) |->
           Clamp(-One, One, current[j] + Pi0_delta(ph, j - 1))])

\* the joint vectors of steps i .. CHUNK_SIZE - 1, starting from current
RECURSIVE Pi0_trajectory(_, _, _)
Pi0_trajectory(m, current, i) ==
   IF i >= Pi0_CHUNK_SIZE
   THEN << >>
   ELSE LET nxt == Pi0_step(current, Pi0_phase(m, i))
        IN  <<nxt>> \o Pi0_trajectory(m, nxt, i + 1)

\* fault: every call starts from the observation, never from _last_action
generate_smooth_actions_reseeding(m, obs) ==
   IF IsNone(obs, "joint_positions")
   THEN [actions |-> << >>, model |-> m, err |-> NotSubscriptable]
   ELSE LET start == SeedFromObservation(obs)
            traj  == Pi0_trajectory(m, start, 0)
            acts  == List([i \in 1..Len(traj) |->
                             Action(traj[i], Pi0_gripper(Pi0_phase(m, i - 1)),
                                    obs.timestamp + i * Frac(2, 100))])
            final == IF Len(traj) = 0 THEN start ELSE traj[Len(traj)]
        IN  IF IsNone(obs, "timestamp")
            THEN [actions |-> << >>, model |-> m, err |-> BadOperand]
            ELSE [actions |-> acts, model |-> [m EXCEPT !.last_action = final],
                  err |-> NoError]

\* fault: current is self._last_action itself, not a copy of it, so the
\* first pass of the loop has already moved it when the timestamp is added
generate_smooth_actions_inplace(m, obs) ==
   IF m.last_action = NoAction /\ IsNone(obs, "joint_positions")
   THEN [actions |-> << >>, model |-> m, err |-> NotSubscriptable]
   ELSE LET start == IF m.last_action # NoAction
                     THEN m.last_action
                     ELSE SeedFromObservation(obs)
            traj  == Pi0_trajectory(m, start, 0)
            acts  == List([i \in 1..Len(traj) |->
                             Action(traj[i], Pi0_gripper(Pi0_phase(m, i - 1)),
                                    obs.timestamp + i * Frac(2, 100))])
            final == IF Len(traj) = 0 THEN start ELSE traj[Len(traj)]
        IN  IF IsNone(obs, "timestamp")
            THEN [actions |-> << >>,
                  model |-> IF m.last_action # NoAction
                            THEN [m EXCEPT !.last_action = traj[1]]
                            ELSE m,
                  err |-> BadOperand]
            ELSE [actions |-> acts, model |-> [m EXCEPT !.last_action = final],
                  err |-> NoError]

\* _generate_smooth_actions: the actions, the instance with _last_action
\* set and the exception raised.  joint_positions is read only without a
\* _last_action; the timestamp is added in the first pass of the loop, when
\* only the local copy current has changed.
generate_smooth_actions(m, obs) ==
   IF m.last_action = NoAction /\ IsNone(obs, "joint_positions")
   THEN [actions |-> << >>, model |-> m, err |-> NotSubscriptable]
   ELSE LET start == IF m.last_action # NoAction
                     THEN m.last_action
                     ELSE SeedFromObservation(obs)
            traj  == Pi0_trajectory(m, start, 0)
            acts  == List([i \in 1..Len(traj) |->
                             Action(traj[i], Pi0_gripper(Pi0_phase(m, i - 1)),
                                    obs.timestamp + i * Frac(2, 100))])
            final == IF Len(traj) = 0 THEN start ELSE traj[Len(traj)]
        IN  IF IsNone(obs, "timestamp")
            THEN [actions |-> << >>, model |-> m, err |-> BadOperand]
            ELSE [actions |-> acts, model |-> [m EXCEPT !.last_action = final],
                  err |-> NoError]

\* fault: the noise is drawn from [-0.3, 0.3]
Pi0_calculate_confidence_noisy(obs, src, n) ==
   LET base == IF \E k \in 1..Len(Pi0_SUPPORTED_EMBODIMENTS) :
                     Pi0_SUPPORTED_EMBODIMENTS[k] = obs.embodiment_tag
               THEN Frac(9, 10)
               ELSE Frac(6, 10)
   IN  Clamp(Frac(1, 2), One,
             base + Uniform(-Frac(3, 10), Frac(3, 10), src, n))

\* _calculate_confidence; draw n of the call is its random.uniform
Pi0_calculate_confidence(obs, src, n) ==
   LET base == IF \E k \in 1..Len(Pi0_SUPPORTED_EMBODIMENTS) :
                     Pi0_SUPPORTED_EMBODIMENTS[k] = obs.embodiment_tag
               THEN Frac(9, 10)
               ELSE Frac(6, 10)
   IN  Clamp(Frac(1, 2), One,
             base + Uniform(-Frac(5, 100), Frac(5, 100), src, n))

\* fault: the chunk carries the counter as it was before the increment
Pi0_predict_stale(m, obs, src) ==
   IF check_loaded(m) # NoError
   THEN Outcome(m, check_loaded(m), NoReturn)
   ELSE LET latency_ms == Uniform(Pi0_MIN_LATENCY_MS, Pi0_MAX_LATENCY_MS, src, 0)
            gen == generate_smooth_actions(m, obs)
            m2  == [gen.model EXCEPT !.sequence_counter = @ + 1]
        IN  Outcome(m2, NoError,
                    Return(ActionChunk(gen.actions, latency_ms, Pi0_MODEL_VERSION,
                                       Pi0_calculate_confidence(obs, src, 1),
                                       m.sequence_counter)))

\* draw 0 is the latency, draw 1 the confidence noise
Pi0_predict(m, obs, src) ==
   IF check_loaded(m) # NoError
   THEN Outcome(m, check_loaded(m), NoReturn)
   ELSE LET latency_ms == Uniform(Pi0_MIN_LATENCY_MS, Pi0_MAX_LATENCY_MS, src, 0)
            gen == generate_smooth_actions(m, obs)
            m2  == [gen.model EXCEPT !.sequence_counter = @ + 1]
        IN  IF gen.err # NoError
            THEN Outcome(gen.model, gen.err, NoReturn)
            ELSE Outcome(m2, NoError,
                         Return(ActionChunk(gen.actions, latency_ms,
                                            Pi0_MODEL_VERSION,
                                            Pi0_calculate_confidence(obs, src, 1),
                                            m2.sequence_counter)))

\* predict when time.sleep is interrupted: nothing has been assigned yet
Pi0_predict_interrupted(m, obs, src) ==
   IF check_loaded(m) # NoError
   THEN Outcome(m, check_loaded(m), NoReturn)
   ELSE Outcome(m, KeyboardInterrupt, NoReturn)

\* fault: the loop runs over the observations from the last to the first
RECURSIVE Pi0_batch_loop_reversed(_, _, _, _, _)
Pi0_batch_loop_reversed(m, observations, src, k, results) ==
   IF k > Len(observations)
   THEN Outcome(m, NoError, Return(results))
   ELSE LET out == Pi0_predict(m, observations[Len(observations) + 1 - k], src)
        IN  IF out.err # NoError
            THEN Outcome(out.model, out.err, NoReturn)
            ELSE Pi0_batch_loop_reversed(out.model, observations, src, k + 1,
                                         Append(results, out.ret[1]))

\* the loop of predict_batch over observations[k..]; it stops at the first
\* predict that raises and the exception leaves with what was done so far
RECURSIVE Pi0_batch_loop(_, _, _, _, _)
Pi0_batch_loop(m, observations, src, k, results) ==
   IF k > Len(observations)
   THEN Outcome(m, NoError, Return(results))
   ELSE LET out == Pi0_predict(m, observations[k], src)
        IN  IF out.err # NoError
            THEN Outcome(out.model, out.err, NoReturn)
            ELSE Pi0_batch_loop(out.model, observations, src, k + 1,
                                Append(results, out.ret[1]))

\* fault: a batch that fails puts the instance back as it was before it
Pi0_predict_batch_atomic(m, observations, src) ==
   IF check_loaded(m) # NoError
   THEN Outcome(m, check_loaded(m), NoReturn)
   ELSE LET out == Pi0_batch_loop(m, observations, src, 1, << >>)
        IN  IF out.err # NoError
            THEN Outcome(m, out.err, NoReturn)
            ELSE out

Pi0_predict_batch(m, observations, src) ==
   IF check_loaded(m) # NoError
   THEN Outcome(m, check_loaded(m), NoReturn)
   ELSE Pi0_batch_loop(m, observations, src, 1, << >>)

-----------------------------------------------------------------------------
(* openvla.py: OpenVLAModel *)

OpenVLA_MODEL_VERSION == "7b-stub"

OpenVLA_CHUNK_SIZE == 8

OpenVLA_MIN_LATENCY_MS == 30

OpenVLA_MAX_LATENCY_MS == 70

OpenVLA_MAX_HISTORY == 10

OpenVLA_SUPPORTED_EMBODIMENTS ==
   <<"franka_panda", "kuka_iiwa", "ur5", "widowx", "google_robot">>

OpenVLA_MODEL_NAME == "openvla-stub"
OpenVLA_BASE_MODEL == "openvla"
OpenVLA_ACTION_DIM == 7
OpenVLA_IMAGE_WIDTH == 336
OpenVLA_IMAGE_HEIGHT == 336

OpenVLA_model_info ==
   ModelInfo(OpenVLA_MODEL_NAME, OpenVLA_MODEL_VERSION, OpenVLA_ACTION_DIM,
             OpenVLA_CHUNK_SIZE, OpenVLA_SUPPORTED_EMBODIMENTS,
             OpenVLA_IMAGE_WIDTH, OpenVLA_IMAGE_HEIGHT, OpenVLA_BASE_MODEL)

OpenVLA_init ==
   [kind |-> "openvla", loaded |-> FALSE, device |-> "cpu", checkpoint_path |-> None,
    sequence_counter |-> 0, action_history |-> << >>]

\* fault: the early return of a redundant load is missing
OpenVLA_load_again(m, checkpoint_path, dev) ==
   Outcome([m EXCEPT !.checkpoint_path = checkpoint_path,
                     !.device = dev,
                     !.loaded = TRUE,
                     !.sequence_counter = 0,
                     !.action_history = << >>],
           NoError, NoReturn)

OpenVLA_load(m, checkpoint_path, dev) ==
   IF m.loaded
   THEN Outcome(m, NoError, NoReturn)
   ELSE Outcome([m EXCEPT !.checkpoint_path = checkpoint_path,
                          !.device = dev,
                          !.loaded = TRUE,
                          !.sequence_counter = 0,
                          !.action_history = << >>],
                NoError, NoReturn)

\* fault: unload leaves the action history in place
OpenVLA_unload_keeps_history(m) ==
   IF ~m.loaded
   THEN Outcome(m, NoError, NoReturn)
   ELSE Outcome([m EXCEPT !.loaded = FALSE, !.sequence_counter = 0],
                NoError, NoReturn)

OpenVLA_unload(m) ==
   IF ~m.loaded
   THEN Outcome(m, NoError, NoReturn)
   ELSE Outcome([m EXCEPT !.loaded = FALSE,
                          !.sequence_counter = 0,
                          !.action_history = << >>],
                NoError, NoReturn)

\* fault: the place keywords are looked for before the pick keywords
generate_target_place_first(obs, src) ==
   LET instruction == lower(obs.language_instruction)
       base ==
          IF Contains(<<"p","l","a","c","e">>, instruction)
             \/ Contains(<<"p","u","t">>, instruction)
          THEN <<2000, 3000, 1000, 0, 2000, 0>>
          ELSE IF Contains(<<"p","i","c","k">>, instruction)
                  \/ Contains(<<"g","r","a","b">>, instruction)
          THEN <<3000, 2000, -4000, 0, 5000, 0>>
          ELSE IF Contains(<<"m","o","v","e">>, instruction)
          THEN <<1000, 1000, 0, 0, 0, 0>>
          ELSE <<0, 0, 0, 0, 0, 0>>
   IN  List([j \in 1..6 |->
              base[j] + Uniform(-Frac(1, 10), Frac(1, 10), src, j)])

\* _generate_target; its six draws are draws 1..6 of the call
generate_target(obs, src) ==
   LET instruction == lower(obs.language_instruction)
       base ==
          IF Contains(<<"p","i","c","k">>, instruction)
             \/ Contains(<<"g","r","a","b">>, instruction)
          THEN <<3000, 2000, -4000, 0, 5000, 0>>
          ELSE IF Contains(<<"p","l","a","c","e">>, instruction)
                  \/ Contains(<<"p","u","t">>, instruction)
          THEN <<2000, 3000, 1000, 0, 2000, 0>>
          ELSE IF Contains(<<"m","o","v","e">>, instruction)
          THEN <<1000, 1000, 0, 0, 0, 0>>
          ELSE <<0, 0, 0, 0, 0, 0>>
   IN  List([j \in 1..6 |->
              base[j] + Uniform(-Frac(1, 10), Frac(1, 10), src, j)])

\* the draws of step i (0-based): two per joint, then the gripper's
OpenVLA_draw(i, k) == 7 + 13 * i + k

\* fault: the step is taken in full even when the target is nearer
OpenVLA_joint_overshooting(curr, tgt, src, i, j) ==
   LET step_size == Frac(5, 100)
                    + Uniform(-Frac(2, 100), Frac(2, 100),
                              src, OpenVLA_draw(i, 2 * (j - 1)))
       stepped   == IF tgt > curr
                    THEN curr + step_size
                    ELSE curr - step_size
       noisy     == stepped + Uniform(-Frac(1, 100), Frac(1, 100),
                                      src, OpenVLA_draw(i, 2 * (j - 1) + 1))
   IN  Clamp(-One, One, noisy)

\* the body of the joint loop for joint j (1-based) at step i
OpenVLA_joint(curr, tgt, src, i, j) ==
   LET step_size == Frac(5, 100)
                    + Uniform(-Frac(2, 100), Frac(2, 100),
                              src, OpenVLA_draw(i, 2 * (j - 1)))
       stepped   == IF tgt > curr
                    THEN Min2(tgt, curr + step_size)
                    ELSE Max2(tgt, curr - step_size)
       noisy     == stepped + Uniform(-Frac(1, 100), Frac(1, 100),
                                      src, OpenVLA_draw(i, 2 * (j - 1) + 1))
   IN  Clamp(-One, One, noisy)

\* one pass of the joint loop: zip(current, target) stops after the six
\* targets, so entries of current beyond the sixth are left as they are
OpenVLA_step(current, target, src, i) ==
   List([j \in 1..Len(current) |->
           IF j <= Len(target)
           THEN OpenVLA_joint(current[j], target[j], src, i, j)
           ELSE current[j]])

\* the first len(target) entries of current: the step's joint_commands
OpenVLA_commands(current, target) ==
   SubSeq(current, 1, Min2(Len(current), Len(target)))

\* the value the gripper blend starts from
OpenVLA_gripper_current(m) ==
   IF m.action_history = << >>
   THEN Frac(1, 2)
   ELSE LET lastEntry == m.action_history[Len(m.action_history)]
        IN  IF Len(lastEntry) > 6 THEN lastEntry[7] ELSE Frac(1, 2)

\* the target the gripper blend moves to
OpenVLA_gripper_target(obs) ==
   IF Contains(<<"p","i","c","k">>, lower(obs.language_instruction))
   THEN One
   ELSE 0

\* the gripper command of step i; neither gripper_current nor gripper_target
\* changes from one step of a call to the next
OpenVLA_gripper(gripper_current, gripper_target, src, i) ==
   LET gripper == gripper_current
                  + RoundDiv(15 * (gripper_target - gripper_current), 100)
   IN  Clamp(0, One,
             gripper + Uniform(-Frac(5, 100), Frac(5, 100),
                               src, OpenVLA_draw(i, 12)))

\* the values of current after steps i .. CHUNK_SIZE - 1
RECURSIVE OpenVLA_trajectory(_, _, _, _)
OpenVLA_trajectory(current, target, src, i) ==
   IF i >= OpenVLA_CHUNK_SIZE
   THEN << >>
   ELSE LET nxt == OpenVLA_step(current, target, src, i)
        IN  <<nxt>> \o OpenVLA_trajectory(nxt, target, src, i + 1)

\* fault: beyond ten entries the newest is dropped, not the oldest
OpenVLA_store_dropping_newest(history, entry) ==
   LET appended == Append(history, entry)
   IN  IF Len(appended) > OpenVLA_MAX_HISTORY
       THEN SubSeq(appended, 1, OpenVLA_MAX_HISTORY)
       ELSE appended

\* self._action_history.append(entry), the oldest popped beyond ten
OpenVLA_store(history, entry) ==
   LET appended == Append(history, entry)
   IN  IF Len(appended) > OpenVLA_MAX_HISTORY THEN Tail(appended) ELSE appended

\* fault: every call starts from the observation, never from the history
generate_openvla_actions_reseeding(m, obs, src) ==
   IF IsNone(obs, "joint_positions")
   THEN [actions |-> << >>, model |-> m, err |-> NotSubscriptable]
   ELSE IF IsNone(obs, "language_instruction")
   THEN [actions |-> << >>, model |-> m, err |-> NoAttribute]
   ELSE IF IsNone(obs, "timestamp")
   THEN [actions |-> << >>, model |-> m, err |-> BadOperand]
   ELSE
   LET start  == SeedFromObservation(obs)
       target == generate_target(obs, src)
       traj   == OpenVLA_trajectory(start, target, src, 0)
       gc     == OpenVLA_gripper_current(m)
       gt     == OpenVLA_gripper_target(obs)
       acts   == List([i \in 1..Len(traj) |->
                         Action(OpenVLA_commands(traj[i], target),
                                OpenVLA_gripper(gc, gt, src, i - 1),
                                obs.timestamp + i * Frac(2, 100))])
       final  == traj[Len(traj)]
       entry  == Append(final, acts[Len(acts)].gripper_command)
   IN  [actions |-> acts,
        model   |-> [m EXCEPT !.action_history = OpenVLA_store(@, entry)],
        err     |-> NoError]

\* _generate_openvla_actions: the actions, the instance with the history
\* entry appended and the exception raised.  joint_positions is read only
\* with an empty history, the instruction by _generate_target before the
\* loop, the timestamp in the first pass of the loop; the history entry is
\* appended after the loop.
generate_openvla_actions(m, obs, src) ==
   IF m.action_history = << >> /\ IsNone(obs, "joint_positions")
   THEN [actions |-> << >>, model |-> m, err |-> NotSubscriptable]
   ELSE IF IsNone(obs, "language_instruction")
   THEN [actions |-> << >>, model |-> m, err |-> NoAttribute]
   ELSE IF IsNone(obs, "timestamp")
   THEN [actions |-> << >>, model |-> m, err |-> BadOperand]
   ELSE
   LET start  == IF m.action_history # << >>
                 THEN m.action_history[Len(m.action_history)]
                 ELSE SeedFromObservation(obs)
       target == generate_target(obs, src)
       traj   == OpenVLA_trajectory(start, target, src, 0)
       gc     == OpenVLA_gripper_current(m)
       gt     == OpenVLA_gripper_target(obs)
       acts   == List([i \in 1..Len(traj) |->
                         Action(OpenVLA_commands(traj[i], target),
                                OpenVLA_gripper(gc, gt, src, i - 1),
                                obs.timestamp + i * Frac(2, 100))])
       final  == traj[Len(traj)]
       entry  == Append(final, acts[Len(acts)].gripper_command)
   IN  [actions |-> acts,
        model   |-> [m EXCEPT !.action_history = OpenVLA_store(@, entry)],
        err     |-> NoError]

\* _calculate_confidence; draw n of the call is its random.uniform
OpenVLA_calculate_confidence(obs, src, n) ==
   LET base == IF \E k \in 1..Len(OpenVLA_SUPPORTED_EMBODIMENTS) :
                     OpenVLA_SUPPORTED_EMBODIMENTS[k] = obs.embodiment_tag
               THEN Frac(85, 100)
               ELSE Frac(55, 100)
   IN  Clamp(Frac(4, 10), One,
             base + Uniform(-Frac(5, 100), Frac(5, 100), src, n))

\* draw 0 is the latency, the last draw the confidence noise
OpenVLA_predict(m, obs, src) ==
   IF check_loaded(m) # NoError
   THEN Outcome(m, check_loaded(m), NoReturn)
   ELSE LET latency_ms == Uniform(OpenVLA_MIN_LATENCY_MS, OpenVLA_MAX_LATENCY_MS,
                                  src, 0)
            gen == generate_openvla_actions(m, obs, src)
            m2  == [gen.model EXCEPT !.sequence_counter = @ + 1]
        IN  IF gen.err # NoError
            THEN Outcome(gen.model, gen.err, NoReturn)
            ELSE Outcome(m2, NoError,
                         Return(ActionChunk(gen.actions, latency_ms,
                                            OpenVLA_MODEL_VERSION,
                                            OpenVLA_calculate_confidence(
                                               obs, src,
                                               OpenVLA_draw(OpenVLA_CHUNK_SIZE, 0)),
                                            m2.sequence_counter)))

\* predict when time.sleep is interrupted: nothing has been assigned yet
OpenVLA_predict_interrupted(m, obs, src) ==
   IF check_loaded(m) # NoError
   THEN Outcome(m, check_loaded(m), NoReturn)
   ELSE Outcome(m, KeyboardInterrupt, NoReturn)

\* fault: a predict that raises is skipped and the loop goes on
RECURSIVE OpenVLA_batch_loop_swallowing(_, _, _, _, _)
OpenVLA_batch_loop_swallowing(m, observations, src, k, results) ==
   IF k > Len(observations)
   THEN Outcome(m, NoError, Return(results))
   ELSE LET out == OpenVLA_predict(m, observations[k], src)
        IN  IF out.err # NoError
            THEN OpenVLA_batch_loop_swallowing(out.model, observations, src,
                                               k + 1, results)
            ELSE OpenVLA_batch_loop_swallowing(out.model, observations, src,
                                               k + 1, Append(results, out.ret[1]))

\* [self.predict(obs) for obs in observations], from observations[k] on
RECURSIVE OpenVLA_batch_loop(_, _, _, _, _)
OpenVLA_batch_loop(m, observations, src, k, results) ==
   IF k > Len(observations)
   THEN Outcome(m, NoError, Return(results))
   ELSE LET out == OpenVLA_predict(m, observations[k], src)
        IN  IF out.err # NoError
            THEN Outcome(out.model, out.err, NoReturn)
            ELSE OpenVLA_batch_loop(out.model, observations, src, k + 1,
                                    Append(results, out.ret[1]))

\* fault: predict_batch leaves the check to the predicts of its loop
OpenVLA_predict_batch_unchecked(m, observations, src) ==
   OpenVLA_batch_loop(m, observations, src, 1, << >>)

OpenVLA_predict_batch(m, observations, src) ==
   IF check_loaded(m) # NoError
   THEN Outcome(m, check_loaded(m), NoReturn)
   ELSE OpenVLA_batch_loop(m, observations, src, 1, << >>)

-----------------------------------------------------------------------------
(* groot.py: GR00TModel *)

GR00T_CHUNK_SIZE == 20

GR00T_MODEL_NAME == "groot-stub"
GR00T_MODEL_VERSION == "0.0.0-stub"
GR00T_BASE_MODEL == "groot"
GR00T_ACTION_DIM == 32
GR00T_IMAGE_WIDTH == 448
GR00T_IMAGE_HEIGHT == 448
GR00T_SUPPORTED_EMBODIMENTS ==
   <<"nvidia_jetbot", "figure_01", "unitree_h1", "unitree_g1">>

GR00T_model_info ==
   ModelInfo(GR00T_MODEL_NAME, GR00T_MODEL_VERSION, GR00T_ACTION_DIM,
             GR00T_CHUNK_SIZE, GR00T_SUPPORTED_EMBODIMENTS, GR00T_IMAGE_WIDTH,
             GR00T_IMAGE_HEIGHT, GR00T_BASE_MODEL)

GR00T_init ==
   [kind |-> "groot", loaded |-> FALSE, device |-> "cpu", checkpoint_path |-> None]

GR00TNotAvailable(msg) == [kind |-> "GR00TNotAvailableError", msg |-> msg]

\* the text of GR00TNotAvailableError raised by load, in fragments
GR00T_load_message ==
   <<"GR00T model integration is ", "not yet available", ".\n\n",
     "GR00T is NVIDIA's foundation model for humanoid robots, ",
     "currently in limited preview.\n\n",
     "For humanoid robot inference, please use:\n",
     "  - model_type='", "pi0", "' for pi0.6 (recommended)\n",
     "  - model_type='", "openvla", "' for OpenVLA 7B\n\n",
     "To track GR00T availability:\n",
     "  https://developer.nvidia.com/project-groot\n",
     "  https://developer.nvidia.com/isaac-sim">>

\* fault: the device is recorded before the error is raised
GR00T_load_records(m, checkpoint_path, dev) ==
   Outcome([m EXCEPT !.device = dev], GR00TNotAvailable(GR00T_load_message),
           NoReturn)

GR00T_load(m, checkpoint_path, dev) ==
   Outcome(m, GR00TNotAvailable(GR00T_load_message), NoReturn)

\* fault: predict raises what _check_loaded raises
GR00T_predict_checked(m, obs, src) ==
   Outcome(m, check_loaded(m), NoReturn)

GR00T_predict(m, obs, src) ==
   Outcome(m, GR00TNotAvailable(<<"GR00T model not loaded">>), NoReturn)

\* predict raises before it would sleep
GR00T_predict_interrupted(m, obs, src) == GR00T_predict(m, obs, src)

\* fault: an empty batch is answered with an empty list
GR00T_predict_batch_empty(m, observations, src) ==
   IF observations = << >>
   THEN Outcome(m, NoError, Return(<< >>))
   ELSE Outcome(m, GR00TNotAvailable(<<"GR00T model not loaded">>), NoReturn)

GR00T_predict_batch(m, observations, src) ==
   Outcome(m, GR00TNotAvailable(<<"GR00T model not loaded">>), NoReturn)

GR00T_unload(m) == Outcome(m, NoError, NoReturn)

-----------------------------------------------------------------------------
(* The calls of the VLAModel interface, dispatched on the instance's class *)

load(m, checkpoint_path, dev) ==
   CASE m.kind = "pi0"     -> Pi0_load(m, checkpoint_path, dev)
     [] m.kind = "openvla" -> OpenVLA_load(m, checkpoint_path, dev)
     [] m.kind = "groot"   -> GR00T_load(m, checkpoint_path, dev)

predict(m, obs, src) ==
   CASE m.kind = "pi0"     -> Pi0_predict(m, obs, src)
     [] m.kind = "openvla" -> OpenVLA_predict(m, obs, src)
     [] m.kind = "groot"   -> GR00T_predict(m, obs, src)

predict_interrupted(m, obs, src) ==
   CASE m.kind = "pi0"     -> Pi0_predict_interrupted(m, obs, src)
     [] m.kind = "openvla" -> OpenVLA_predict_interrupted(m, obs, src)
     [] m.kind = "groot"   -> GR00T_predict_interrupted(m, obs, src)

predict_batch(m, observations, src) ==
   CASE m.kind = "pi0"     -> Pi0_predict_batch(m, observations, src)
     [] m.kind = "openvla" -> OpenVLA_predict_batch(m, observations, src)
     [] m.kind = "groot"   -> GR00T_predict_batch(m, observations, src)

unload(m) ==
   CASE m.kind = "pi0"     -> Pi0_unload(m)
     [] m.kind = "openvla" -> OpenVLA_unload(m)
     [] m.kind = "groot"   -> GR00T_unload(m)

\* fault: the chunk size is reported only while the model is loaded
chunk_size_loaded(m) ==
   IF ~m.loaded
   THEN 0
   ELSE CASE m.kind = "pi0"     -> Pi0_CHUNK_SIZE
          [] m.kind = "openvla" -> OpenVLA_CHUNK_SIZE
          [] m.kind = "groot"   -> GR00T_CHUNK_SIZE

chunk_size(m) ==
   CASE m.kind = "pi0"     -> Pi0_CHUNK_SIZE
     [] m.kind = "openvla" -> OpenVLA_CHUNK_SIZE
     [] m.kind = "groot"   -> GR00T_CHUNK_SIZE

model_info(m) ==
   CASE m.kind = "pi0"     -> Pi0_model_info
     [] m.kind = "openvla" -> OpenVLA_model_info
     [] m.kind = "groot"   -> GR00T_model_info

-----------------------------------------------------------------------------
(* The state machine: one caller drives the instances, one call at a time. *)
(* last records the latest call: its name, instance and arguments, the     *)
(* instance as it was before the call (pre), and what the call raised and  *)
(* returned.                                                               *)

Instances == {"model"}

\* no server process is part of the run
NoServer == [pc |-> "none"]

\* _metrics = None
NoMetrics == [kind |-> "None"]

Kinds == {"pi0", "openvla", "groot"}

Generating == {"pi0", "openvla"}

New(kind) ==
   CASE kind = "pi0"     -> Pi0_init
     [] kind = "openvla" -> OpenVLA_init
     [] kind = "groot"   -> GR00T_init

-----------------------------------------------------------------------------
(* models/__init__.py: the factory.  Model type identifiers are sequences  *)
(* of one-character strings.                                               *)

\* the characters of identifiers, in code point order
CodePoints ==
   <<" ", "0", "1", "2", "3", "4", "5", "6", "7", "8", "9">> \o Upper
      \o <<"_">> \o Lower

ord(c) == CHOOSE k \in 1..Len(CodePoints) : CodePoints[k] = c

\* a < b on str: the first position where they differ decides, a proper
\* prefix comes first
StrLess(a, b) ==
   \E k \in 1..(Min2(Len(a), Len(b)) + 1) :
      /\ \A n \in 1..(k - 1) : a[n] = b[n]
      /\ \/ k > Len(a) /\ k <= Len(b)
         \/ k <= Len(a) /\ k <= Len(b) /\ ord(a[k]) < ord(b[k])

\* fault: sorted in descending order
RECURSIVE sorted_descending(_)
sorted_descending(S) ==
   IF S = {}
   THEN << >>
   ELSE LET greatest == CHOOSE x \in S : \A y \in S \ {x} : StrLess(y, x)
        IN  <<greatest>> \o sorted_descending(S \ {greatest})

\* sorted(S) of a set of str
RECURSIVE sorted(_)
sorted(S) ==
   IF S = {}
   THEN << >>
   ELSE LET least == CHOOSE x \in S : \A y \in S \ {x} : StrLess(x, y)
        IN  <<least>> \o sorted(S \ {least})

\* sep.join(strs)
RECURSIVE join(_, _)
join(sep, strs) ==
   IF strs = << >>
   THEN << >>
   ELSE IF Len(strs) = 1
        THEN strs[1]
        ELSE strs[1] \o sep \o join(sep, Tail(strs))

\* model_map, its items in insertion order: key, class
model_map ==
   << << <<"p", "i", "0">>, "pi0" >>,
      << <<"p", "i", "0", "_", "6">>, "pi0" >>,
      << <<"o", "p", "e", "n", "v", "l", "a">>, "openvla" >>,
      << <<"g", "r", "o", "o", "t">>, "groot" >> >>

\* model_map.keys()
model_map_keys == { model_map[k][1] : k \in 1..Len(model_map) }

\* ", ".join(sorted(set(model_map.keys())))
available == join(<<",", " ">>, sorted(model_map_keys))

UnknownModelType(model_type, names) ==
   [kind |-> "ValueError",
    msg |-> <<"Unknown model type: ", model_type, ". ", "Available: ",
              names>>]

\* fault: the identifier is looked up as it was given
create_model_verbatim(model_type) ==
   IF model_type \notin model_map_keys
   THEN [err |-> UnknownModelType(model_type, available),
         ret |-> NoReturn]
   ELSE LET k == CHOOSE k \in 1..Len(model_map) : model_map[k][1] = model_type
        IN  [err |-> NoError, ret |-> Return(New(model_map[k][2]))]

\* fault: the model is loaded before it is returned
create_model_loading(model_type) ==
   LET model_type_lower == lower(model_type)
   IN  IF model_type_lower \notin model_map_keys
       THEN [err |-> UnknownModelType(model_type, available),
             ret |-> NoReturn]
       ELSE LET k == CHOOSE k \in 1..Len(model_map) :
                        model_map[k][1] = model_type_lower
            IN  [err |-> NoError,
                 ret |-> Return(load(New(model_map[k][2]), None, "cpu").model)]

\* create_model: the error it raises and the instance it returns
create_model(model_type) ==
   LET model_type_lower == lower(model_type)
   IN  IF model_type_lower \notin model_map_keys
       THEN [err |-> UnknownModelType(model_type, available),
             ret |-> NoReturn]
       ELSE LET k == CHOOSE k \in 1..Len(model_map) :
                        model_map[k][1] = model_type_lower
            IN  [err |-> NoError, ret |-> Return(New(model_map[k][2]))]

\* the (checkpoint_path, device) arguments load is called with
LoadArgs == { <<None, "cpu">>, <<"/ckpt/a", "cuda:0">> }

\* the observation lists of length 0 .. n over BatchObservations
RECURSIVE ObservationLists(_)
ObservationLists(n) ==
   IF n = 0
   THEN { << >> }
   ELSE LET shorter == ObservationLists(n - 1)
        IN  shorter \cup { Append(l, o) : l \in { s \in shorter : Len(s) = n - 1 },
                                          o \in BatchObservations }

\* the caller's record for an instance: whether it ever called load, the
\* sequence numbers of the chunks it received since the load that last took
\* the instance from Unloaded to Loaded, and whether it had received chunks
\* in an earlier loaded period
NewLog == [load_called |-> FALSE, seqs |-> << >>, reloaded |-> FALSE]

Received(op, out) ==
   CASE op = "predict" /\ out.err = NoError ->
           <<out.ret[1].sequence_number>>
     [] op = "predict_batch" /\ out.err = NoError ->
           List([k \in 1..Len(out.ret[1]) |-> out.ret[1][k].sequence_number])
     [] OTHER -> << >>

Logged(l, op, pre, out) ==
   IF op = "load"
   THEN IF out.err = NoError /\ ~pre.loaded
        THEN [l EXCEPT !.load_called = TRUE, !.seqs = << >>,
                       !.reloaded = l.reloaded \/ l.seqs # << >>]
        ELSE [l EXCEPT !.load_called = TRUE]
   ELSE [l EXCEPT !.seqs = @ \o Received(op, out)]

\* fault: the state of a model is kept in class attributes, shared by the
\* instances of the class
SetAttrs_class(ms, i, m) ==
   [j \in DOMAIN ms |-> IF ms[j].kind = m.kind THEN m ELSE ms[j]]

\* the attributes a method assigns are those of self, set up per instance by
\* __init__
SetAttrs(ms, i, m) == [ms EXCEPT ![i] = m]

Call(op, i, arg, src, out) ==
   /\ models' = SetAttrs(models, i, out.model)
   /\ last' = [op |-> op, inst |-> i, arg |-> arg, src |-> src,
               pre |-> models[i], err |-> out.err, ret |-> out.ret]
   /\ log' = [log EXCEPT ![i] = Logged(@, op, models[i], out)]
   /\ UNCHANGED <<server, metrics>>

\* the counter is capped: a loaded generating instance is asked to predict
\* n more times
\* only while that keeps its counter within MaxSeq
MayPredict(m, n) ==
   (m.kind \in Generating /\ m.loaded) => m.sequence_counter + n <= MaxSeq

Load(i, checkpoint_path, dev) ==
   Call("load", i, <<checkpoint_path, dev>>, "none",
        load(models[i], checkpoint_path, dev))

Predict(i, obs, src) ==
   /\ MayPredict(models[i], 1)
   /\ Call("predict", i, obs, src, predict(models[i], obs, src))

PredictBatch(i, observations, src) ==
   /\ MayPredict(models[i], Len(observations))
   /\ Call("predict_batch", i, observations, src,
           predict_batch(models[i], observations, src))

Unload(i) ==
   Call("unload", i, << >>, "none", unload(models[i]))

Init ==
   /\ \E kind \in Kinds : models = [i \in Instances |-> New(kind)]
   /\ last = [op |-> "init", inst |-> "model", arg |-> << >>, src |-> "none",
              pre |-> models["model"], err |-> NoError, ret |-> NoReturn]
   /\ log = [i \in Instances |-> NewLog]
   /\ server = NoServer
   /\ metrics = NoMetrics

Next ==
   \E i \in DOMAIN models :
      \/ \E a \in LoadArgs : Load(i, a[1], a[2])
      \/ \E obs \in Observations, src \in RandomSources : Predict(i, obs, src)
      \/ \E l \in ObservationLists(MaxBatch), src \in RandomSources :
            PredictBatch(i, l, src)
      \/ Unload(i)

Spec == Init /\ [][Next]_vars

-----------------------------------------------------------------------------
(* The caller hands predict observations with None in an attribute, and    *)
(* its thread may be interrupted while predict sleeps.                     *)

\* the test suite's sample and the sample with None in one attribute
FaultObservations ==
   LET sample == Observation(<<1000, 2000, 3000, 4000, 5000, 6000>>,
                             <<"p", "i", "c", "k", " ", "u", "p">>, 0,
                             "unitree_h1", "s1")
   IN  { sample, WithNone(sample, "joint_positions"),
         WithNone(sample, "timestamp"),
         WithNone(sample, "language_instruction") }

\* the lists of length 0 .. n over FaultObservations
RECURSIVE FaultLists(_)
FaultLists(n) ==
   IF n = 0
   THEN { << >> }
   ELSE LET shorter == FaultLists(n - 1)
        IN  shorter \cup { Append(l, o) : l \in { s \in shorter : Len(s) = n - 1 },
                                          o \in FaultObservations }

PredictInterrupted(i, obs, src) ==
   Call("predict", i, obs, src, predict_interrupted(models[i], obs, src))

NextFaults ==
   \E i \in DOMAIN models :
      \/ Load(i, None, "cpu")
      \/ \E obs \in FaultObservations : Predict(i, obs, "alt")
      \/ \E obs \in FaultObservations : PredictInterrupted(i, obs, "alt")
      \/ \E l \in FaultLists(MaxBatch) : PredictBatch(i, l, "alt")
      \/ Unload(i)

SpecFaults == Init /\ [][NextFaults]_vars

-----------------------------------------------------------------------------
(* One OpenVLAModel is asked to predict often enough to fill its action    *)
(* history and to go beyond its capacity.                                  *)

\* the observation of every predict: the test suite's sample
HistoryObservation ==
   Observation(<<1000, 2000, 3000, 4000, 5000, 6000>>,
               <<"p", "i", "c", "k", " ", "u", "p">>, 0, "unitree_h1", "s1")

HistoryPredict(i, obs, src) ==
   /\ models[i].loaded => models[i].sequence_counter < MaxHistorySeq
   /\ Call("predict", i, obs, src, predict(models[i], obs, src))

InitHistory ==
   /\ models = [i \in Instances |-> OpenVLA_init]
   /\ last = [op |-> "init", inst |-> "model", arg |-> << >>, src |-> "none",
              pre |-> models["model"], err |-> NoError, ret |-> NoReturn]
   /\ log = [i \in Instances |-> NewLog]
   /\ server = NoServer
   /\ metrics = NoMetrics

NextHistory ==
   \E i \in DOMAIN models :
      \/ Load(i, None, "cpu")
      \/ \E src \in RandomSources : HistoryPredict(i, HistoryObservation, src)
      \/ Unload(i)

SpecHistory == InitHistory /\ [][NextHistory]_vars

-----------------------------------------------------------------------------
(* One OpenVLA instance given instructions that mix the keywords of        *)
(* _generate_target.                                                       *)

MaxTargetSeq == 1

\* the observations: one per instruction
TargetObservations ==
   { Observation(<<1000, 2000, 3000, 4000, 5000, 6000>>, instruction, 0,
                 "franka_panda", None) :
        instruction \in
           { <<"p", "i", "c", "k">>,
             <<"G", "r", "a", "b", " ", "a", "n", "d", " ", "m", "o", "v", "e">>,
             <<"p", "l", "a", "c", "e", " ", "t", "h", "e", "n", " ", "p", "i", "c", "k">>,
             <<"p", "u", "t">>,
             <<"P", "L", "A", "C", "E", " ", "a", "n", "d", " ", "m", "o", "v", "e">>,
             <<"m", "o", "v", "e">>,
             <<"w", "a", "v", "e">>,
             <<>> } }

TargetPredict(i, obs, src) ==
   /\ models[i].loaded => models[i].sequence_counter < MaxTargetSeq
   /\ Call("predict", i, obs, src, predict(models[i], obs, src))

\* self._generate_target(observation): reads the observation only and
\* assigns nothing
GenerateTarget(i, obs, src) ==
   /\ last' = [op |-> "_generate_target", inst |-> i, arg |-> obs,
               src |-> src, pre |-> models[i], err |-> NoError,
               ret |-> Return(generate_target(obs, src))]
   /\ UNCHANGED <<models, log, server, metrics>>

NextTarget ==
   \E i \in DOMAIN models :
      \/ Load(i, None, "cpu")
      \/ \E obs \in TargetObservations, src \in RandomSources :
            \/ TargetPredict(i, obs, src)
            \/ GenerateTarget(i, obs, src)
      \/ Unload(i)

SpecTarget == InitHistory /\ [][NextTarget]_vars

-----------------------------------------------------------------------------
(* The caller gets its instances from the factory: it holds up to two, in  *)
(* the variables a and b, creates them in any order and any number of      *)
(* times and calls them in any interleaving.                               *)

Handles == {"a", "b"}

\* a variable of the caller that holds no instance yet
Unbound == [kind |-> "unbound"]

\* the identifiers create_model is called with
ModelTypes ==
   { <<"p", "i", "0">>, <<"P", "i", "0", "_", "6">>,
     <<"O", "P", "E", "N", "V", "L", "A">>, <<"G", "r", "o", "o", "t">>,
     <<"g", "r", "0", "0", "t">>, <<"p", "i", "0", "_">>, << >> }

\* the observation and the arguments the instances are called with
FactoryObservation == Observation(<<1000, 2000, 3000, 4000, 5000, 6000>>,
                                  <<"p", "i", "c", "k">>, 0, "franka_panda", None)

\* name = create_model(model_type): the variable holds the new instance if
\* one is returned and what it held before if the call raises
Create(i, model_type) ==
   LET out == create_model(model_type)
       held == IF i \in DOMAIN models THEN models[i] ELSE Unbound
   IN  /\ models' = IF out.err = NoError
                    THEN (i :> out.ret[1]) @@ models
                    ELSE models
       /\ log' = IF out.err = NoError
                 THEN (i :> [load_called |-> FALSE, seqs |-> << >>,
                             reloaded |-> FALSE, model_type |-> model_type])
                         @@ log
                 ELSE log
       /\ last' = [op |-> "create_model", inst |-> i, arg |-> model_type,
                   src |-> "none", pre |-> held, err |-> out.err,
                   ret |-> out.ret]
       /\ UNCHANGED <<server, metrics>>

\* an instance from the factory is asked to predict only while that keeps
\* its counter within MaxFactorySeq
FactoryMayPredict(m, n) ==
   (m.kind \in Generating /\ m.loaded) => m.sequence_counter + n <= MaxFactorySeq

FactoryPredict(i, obs, src) ==
   /\ FactoryMayPredict(models[i], 1)
   /\ Call("predict", i, obs, src, predict(models[i], obs, src))

FactoryPredictBatch(i, observations, src) ==
   /\ FactoryMayPredict(models[i], Len(observations))
   /\ Call("predict_batch", i, observations, src,
           predict_batch(models[i], observations, src))

InitFactory ==
   /\ models = << >>
   /\ log = << >>
   /\ server = NoServer
   /\ metrics = NoMetrics
   /\ last = [op |-> "init", inst |-> "a", arg |-> << >>, src |-> "none",
              pre |-> Unbound, err |-> NoError, ret |-> NoReturn]

NextFactory ==
   \/ \E i \in Handles, model_type \in ModelTypes : Create(i, model_type)
   \/ \E i \in DOMAIN models :
         \/ Load(i, None, "cuda:0")
         \/ FactoryPredict(i, FactoryObservation, "hi")
         \/ \E l \in { << >>, <<FactoryObservation>> } :
               FactoryPredictBatch(i, l, "alt")
         \/ Unload(i)

SpecFactory == InitFactory /\ [][NextFactory]_vars

-----------------------------------------------------------------------------
(* metrics.py: the collector.  A labelled counter or histogram is a        *)
(* function from the label tuples used so far to the number of increments  *)
(* or observations.                                                        *)

\* VLAMetrics(): disabled when prometheus_client could not be imported
VLAMetrics(prometheus_available) ==
   IF ~prometheus_available
   THEN [enabled |-> FALSE]
   ELSE [enabled |-> TRUE, requests_total |-> << >>,
         inference_latency |-> << >>]

\* get_metrics: the singleton, made on the first call
get_metrics(singleton, prometheus_available) ==
   IF singleton = NoMetrics
   THEN VLAMetrics(prometheus_available)
   ELSE singleton

\* metric.labels(...).inc() and metric.labels(...).observe(value)
Count(metric, labels) == IF labels \in DOMAIN metric THEN metric[labels] ELSE 0

Inc(metric, labels) == (labels :> (Count(metric, labels) + 1)) @@ metric

\* fault: the handler catches everything the block raises
measure_latency_catching_all(self, model_type, embodiment, raised) ==
   IF ~self.enabled
   THEN [self |-> self, err |-> raised]
   ELSE LET counted ==
               IF raised = NoError
               THEN [self EXCEPT !.requests_total =
                                    Inc(@, <<model_type, "success">>)]
               ELSE [self EXCEPT !.requests_total =
                                    Inc(@, <<model_type, "error">>)]
        IN  [self |-> [counted EXCEPT !.inference_latency =
                                         Inc(@, <<model_type, embodiment>>)],
             err  |-> raised]

\* with self.measure_latency(model_type, embodiment): block, where raised is
\* the exception the block leaves with (NoError if it returns): the
\* collector afterwards and the exception the with statement leaves with.
\* "except Exception" does not catch KeyboardInterrupt, which derives from
\* BaseException only.
measure_latency(self, model_type, embodiment, raised) ==
   IF ~self.enabled
   THEN [self |-> self, err |-> raised]
   ELSE LET counted ==
               IF raised = NoError
               THEN [self EXCEPT !.requests_total =
                                    Inc(@, <<model_type, "success">>)]
               ELSE IF raised.kind # "KeyboardInterrupt"
               THEN [self EXCEPT !.requests_total =
                                    Inc(@, <<model_type, "error">>)]
               ELSE self
        IN  [self |-> [counted EXCEPT !.inference_latency =
                                         Inc(@, <<model_type, embodiment>>)],
             err  |-> raised]

\* the uses of measure_latency per pair of labels
MaxMeasured == 2

\* metrics = get_metrics()
GetMetrics(prometheus_available) ==
   /\ metrics' = get_metrics(metrics, prometheus_available)
   /\ last' = [op |-> "get_metrics", inst |-> "model", arg |-> << >>,
               src |-> "none", pre |-> models["model"], err |-> NoError,
               ret |-> NoReturn]
   /\ UNCHANGED <<models, log, server>>

\* with metrics.measure_latency(model_type, embodiment):
\*     result = model.predict(observation)
\* interrupted: the sleep of predict is interrupted
MeasuredPredict(i, obs, src, interrupted) ==
   LET out == IF interrupted
              THEN predict_interrupted(models[i], obs, src)
              ELSE predict(models[i], obs, src)
       labels == <<models[i].kind, obs.embodiment_tag>>
       with == measure_latency(metrics, labels[1], labels[2], out.err)
   IN  /\ metrics # NoMetrics
       /\ MayPredict(models[i], 1)
       /\ metrics.enabled =>
             Count(metrics.inference_latency, labels) < MaxMeasured
       /\ metrics' = with.self
       /\ models' = SetAttrs(models, i, out.model)
       /\ log' = [log EXCEPT ![i] = Logged(@, "predict", models[i], out)]
       /\ last' = [op |-> "measure_latency", inst |-> i, arg |-> obs,
                   src |-> src, pre |-> models[i], err |-> with.err,
                   ret |-> out.ret, raised |-> out.err, labels |-> labels,
                   before |-> metrics]
       /\ UNCHANGED server

NextMetrics ==
   \/ \E prometheus_available \in BOOLEAN : GetMetrics(prometheus_available)
   \/ \E i \in DOMAIN models :
         \/ Load(i, None, "cpu")
         \/ \E obs \in { o \in FaultObservations :
                               o.none_attrs \subseteq {"timestamp"} }
                         \cup { o \in Observations :
                                   o.embodiment_tag = "franka_panda" },
               interrupted \in BOOLEAN :
               MeasuredPredict(i, obs, "alt", interrupted)
         \/ Unload(i)

SpecMetrics == Init /\ [][NextMetrics]_vars

-----------------------------------------------------------------------------
(* config.py and server.py: the process reads its configuration from the  *)
(* environment once, keeps it in a module singleton and starts the server *)
(* with it.  Values of environment variables are sequences of             *)
(* one-character strings.                                                 *)

Digits == <<"0", "1", "2", "3", "4", "5", "6", "7", "8", "9">>

IsDigit(c) == \E k \in 1..Len(Digits) : Digits[k] = c

\* str(n) of an int
RECURSIVE str(_)
str(n) ==
   IF n < 0
   THEN <<"-">> \o str(0 - n)
   ELSE IF n < 10
        THEN <<Digits[n + 1]>>
        ELSE str(n \div 10) \o <<Digits[(n % 10) + 1]>>

\* the digits of an int literal after its sign
Unsigned(s) == IF s # << >> /\ s[1] \in {"-", "+"} THEN Tail(s) ELSE s

\* int(s) accepts an optional sign followed by decimal digits
IsIntLiteral(s) ==
   /\ Unsigned(s) # << >>
   /\ \A k \in 1..Len(Unsigned(s)) : IsDigit(Unsigned(s)[k])

RECURSIVE Magnitude(_)
Magnitude(s) ==
   IF s = << >>
   THEN 0
   ELSE 10 * Magnitude(SubSeq(s, 1, Len(s) - 1))
        + (CHOOSE k \in 1..Len(Digits) : Digits[k] = s[Len(s)]) - 1

\* int(s) of a literal
int(s) == IF s[1] = "-" THEN 0 - Magnitude(Unsigned(s)) ELSE Magnitude(Unsigned(s))

\* what int(s) raises on any other string
InvalidLiteral(s) ==
   [kind |-> "ValueError",
    msg |-> <<"invalid literal for int() with base 10: ", s>>]

\* os.getenv(name, default)
getenv(env, name, default) == IF name \in DOMAIN env THEN env[name] ELSE default

\* the variables from_env passes through int(), in the order it reads
\* them, with their defaults
IntVariables ==
   << <<"VLA_BATCH_SIZE", <<"1">>>>,
      <<"VLA_MAX_BATCH_WAIT_MS", <<"1", "0">>>>,
      <<"VLA_TIMEOUT_MS", <<"5", "0", "0", "0">>>>,
      <<"VLA_IMAGE_WIDTH", <<"2", "2", "4">>>>,
      <<"VLA_IMAGE_HEIGHT", <<"2", "2", "4">>>>,
      <<"VLA_ACTION_DIM", <<"7">>>>,
      <<"VLA_CHUNK_SIZE", <<"1", "6">>>>,
      <<"VLA_GRPC_PORT", <<"5", "0", "0", "5", "1">>>>,
      <<"VLA_MAX_WORKERS", <<"4">>>>,
      <<"VLA_MAX_MESSAGE_SIZE_MB", <<"1", "6">>>>,
      <<"VLA_HEALTH_CHECK_INTERVAL_S", <<"3", "0">>>>,
      <<"VLA_METRICS_PORT", <<"9", "0", "9", "0">>>> >>

\* cls(...) of from_env once every int() has succeeded
VLAConfig(env) ==
   [model_type |-> getenv(env, "VLA_MODEL_TYPE", <<"p", "i", "0">>),
    model_path |-> getenv(env, "VLA_MODEL_PATH", None),
    device |-> getenv(env, "VLA_DEVICE", <<"c", "p", "u">>),
    batch_size |-> int(getenv(env, "VLA_BATCH_SIZE", <<"1">>)),
    max_batch_wait_ms |-> int(getenv(env, "VLA_MAX_BATCH_WAIT_MS", <<"1", "0">>)),
    timeout_ms |-> int(getenv(env, "VLA_TIMEOUT_MS", <<"5", "0", "0", "0">>)),
    image_width |-> int(getenv(env, "VLA_IMAGE_WIDTH", <<"2", "2", "4">>)),
    image_height |-> int(getenv(env, "VLA_IMAGE_HEIGHT", <<"2", "2", "4">>)),
    action_dim |-> int(getenv(env, "VLA_ACTION_DIM", <<"7">>)),
    chunk_size |-> int(getenv(env, "VLA_CHUNK_SIZE", <<"1", "6">>)),
    grpc_port |-> int(getenv(env, "VLA_GRPC_PORT", <<"5", "0", "0", "5", "1">>)),
    max_workers |-> int(getenv(env, "VLA_MAX_WORKERS", <<"4">>)),
    max_message_size_mb |-> int(getenv(env, "VLA_MAX_MESSAGE_SIZE_MB", <<"1", "6">>)),
    health_check_interval_s |-> int(getenv(env, "VLA_HEALTH_CHECK_INTERVAL_S", <<"3", "0">>)),
    metrics_enabled |->
       lower(getenv(env, "VLA_METRICS_ENABLED", <<"t", "r", "u", "e">>)) = <<"t", "r", "u", "e">>,
    metrics_port |-> int(getenv(env, "VLA_METRICS_PORT", <<"9", "0", "9", "0">>))]

\* VLAConfig.from_env: the exception of the first int() that fails, or the
\* configuration
from_env(env) ==
   LET raw(k) == getenv(env, IntVariables[k][1], IntVariables[k][2])
       bad == { k \in 1..Len(IntVariables) : ~IsIntLiteral(raw(k)) }
   IN  IF bad # {}
       THEN [err |-> InvalidLiteral(raw(CHOOSE k \in bad : \A n \in bad : k <= n)),
             ret |-> NoReturn]
       ELSE [err |-> NoError, ret |-> Return(VLAConfig(env))]

\* x in l for a list l
ListHas(l, x) == \E k \in 1..Len(l) : l[k] = x

\* fault: the alias pi0_6 is missing from the list
valid_models_without_alias ==
   << <<"p", "i", "0">>,
      <<"o", "p", "e", "n", "v", "l", "a">>,
      <<"g", "r", "o", "o", "t">> >>

valid_models ==
   << <<"p", "i", "0">>,
      <<"p", "i", "0", "_", "6">>,
      <<"o", "p", "e", "n", "v", "l", "a">>,
      <<"g", "r", "o", "o", "t">> >>

\* ["cpu", "cuda"] + [f"cuda:{i}" for i in range(8)]
valid_devices ==
   <<<<"c", "p", "u">>, <<"c", "u", "d", "a">>>>
      \o List([k \in 1..8 |-> <<"c", "u", "d", "a">> \o <<":">> \o str(k - 1)])

\* VLAConfig.validate: the list of error messages, each the fragments of
\* its f-string
validate(config) ==
   (IF ~ListHas(valid_models, lower(config.model_type))
    THEN << <<"Invalid model_type: ", config.model_type, ". Valid: ",
              valid_models>> >>
    ELSE << >>)
   \o (IF ~ListHas(valid_devices, config.device)
       THEN << <<"Invalid device: ", config.device,
                 ". Valid: cpu, cuda, cuda:N">> >>
       ELSE << >>)
   \o (IF config.batch_size < 1
       THEN << <<"batch_size must be >= 1, got ", str(config.batch_size)>> >>
       ELSE << >>)
   \o (IF config.grpc_port < 1 \/ config.grpc_port > 65535
       THEN << <<"grpc_port must be 1-65535, got ", str(config.grpc_port)>> >>
       ELSE << >>)
   \o (IF config.max_workers < 1
       THEN << <<"max_workers must be >= 1, got ", str(config.max_workers)>> >>
       ELSE << >>)

\* _config = None, self.servicer = None
NoConfig == [kind |-> "None"]

NoServicer == [kind |-> "None"]

\* get_config: the singleton afterwards, the exception raised and the
\* configuration returned
get_config(singleton, env) ==
   IF singleton = NoConfig
   THEN LET out == from_env(env)
        IN  IF out.err = NoError
            THEN [singleton |-> out.ret[1], err |-> NoError, ret |-> out.ret]
            ELSE [singleton |-> singleton, err |-> out.err, ret |-> NoReturn]
   ELSE [singleton |-> singleton, err |-> NoError, ret |-> Return(singleton)]

\* VLAInferenceServicer(config): the adapter gets its backend from the
\* factory by the configured identifier
VLAInferenceServicer(config) ==
   LET out == create_model(config.model_type)
   IN  IF out.err = NoError
       THEN [err |-> NoError,
             ret |-> Return([config |-> config, model |-> "model"]),
             model |-> out.ret]
       ELSE [err |-> out.err, ret |-> NoReturn, model |-> NoReturn]

\* a variable of the environment: unset, or set to one of the values
Setting(name, values) == { << >> } \cup { name :> v : v \in values }

\* the environments the process is started in
Envs ==
   { d @@ p @@ t @@ b @@ m :
        d \in Setting("VLA_DEVICE",
                      { <<"c", "p", "u">>, <<"c", "u", "d", "a">>,
                        <<"c", "u", "d", "a", ":", "7">>,
                        <<"c", "u", "d", "a", ":", "8">>,
                        <<"t", "p", "u">> }),
        p \in Setting("VLA_GRPC_PORT",
                      { <<"0">>, <<"6", "5", "5", "3", "5">>,
                        <<"6", "5", "5", "3", "6">> }),
        t \in Setting("VLA_TIMEOUT_MS", { <<"0">>, <<"-", "5">> }),
        b \in Setting("VLA_BATCH_SIZE", { <<"0">>, <<"2">>, <<"x">> }),
        m \in Setting("VLA_MODEL_TYPE",
                      { <<"O", "p", "e", "n", "V", "L", "A">>,
                        <<"P", "i", "0", "_", "6">>,
                        <<"g", "p", "t">> }) }

\* server = VLAInferenceServer() of main: __init__ takes the configuration
\* from get_config and has no servicer yet
ServerNew ==
   LET out == get_config(server.singleton, server.env)
   IN  /\ server.pc \in {"idle", "stopped", "crashed"}
       /\ server' = IF out.err = NoError
                    THEN [server EXCEPT !.pc = "constructed",
                                        !.singleton = out.singleton,
                                        !.config = out.ret[1],
                                        !.servicer = NoServicer,
                                        !.metrics_server = FALSE,
                                        !.listen_port = << >>]
                    ELSE [server EXCEPT !.pc = "crashed"]
       /\ last' = [op |-> "VLAInferenceServer", inst |-> "model",
                   arg |-> server.env, src |-> "none", pre |-> Unbound,
                   err |-> out.err, ret |-> out.ret]
       /\ UNCHANGED <<models, log, metrics>>

\* await server.start(): the metrics endpoint if enabled, the servicer, the
\* port
ServerStart ==
   LET out == VLAInferenceServicer(server.config)
       held == IF "model" \in DOMAIN models THEN models["model"] ELSE Unbound
   IN  /\ server.pc = "constructed"
       /\ \E prometheus_available \in BOOLEAN :
             metrics' = get_metrics(metrics, prometheus_available)
       /\ server' = IF out.err = NoError
                    THEN [server EXCEPT
                             !.pc = "serving",
                             !.metrics_server = server.config.metrics_enabled,
                             !.servicer = out.ret[1],
                             !.listen_port = str(server.config.grpc_port)]
                    ELSE [server EXCEPT
                             !.pc = "crashed",
                             !.metrics_server = server.config.metrics_enabled]
       /\ models' = IF out.err = NoError
                    THEN ("model" :> out.model[1]) @@ models
                    ELSE models
       /\ log' = IF out.err = NoError
                 THEN ("model" :> [load_called |-> FALSE, seqs |-> << >>,
                                   reloaded |-> FALSE,
                                   model_type |-> server.config.model_type])
                         @@ log
                 ELSE log
       /\ last' = [op |-> "start", inst |-> "model", arg |-> server.config,
                   src |-> "none", pre |-> held, err |-> out.err,
                   ret |-> NoReturn]

\* await server.stop(): the servicer shuts down, which unloads its backend
ServerStop ==
   LET out == unload(models["model"])
   IN  /\ server.pc = "serving"
       /\ server' = [server EXCEPT !.pc = "stopped"]
       /\ models' = SetAttrs(models, "model", out.model)
       /\ log' = [log EXCEPT
                    !["model"] = Logged(@, "unload", models["model"], out)]
       /\ last' = [op |-> "stop", inst |-> "model", arg |-> << >>,
                   src |-> "none", pre |-> models["model"], err |-> out.err,
                   ret |-> out.ret]
       /\ UNCHANGED metrics

\* config.validate() on the configuration of the server
Validate ==
   /\ server.config # NoConfig
   /\ last' = [op |-> "validate", inst |-> "model", arg |-> server.config,
               src |-> "none", pre |-> Unbound, err |-> NoError,
               ret |-> Return(validate(server.config))]
   /\ UNCHANGED <<models, log, server, metrics>>

\* reset_config()
ResetConfig ==
   /\ server.singleton # NoConfig
   /\ server' = [server EXCEPT !.singleton = NoConfig]
   /\ last' = [op |-> "reset_config", inst |-> "model", arg |-> << >>,
               src |-> "none", pre |-> Unbound, err |-> NoError,
               ret |-> NoReturn]
   /\ UNCHANGED <<models, log, metrics>>

InitServer ==
   /\ models = << >>
   /\ log = << >>
   /\ \E env \in Envs :
         server = [pc |-> "idle", env |-> env, singleton |-> NoConfig,
                   config |-> NoConfig, servicer |-> NoServicer,
                   metrics_server |-> FALSE, listen_port |-> << >>]
   /\ last = [op |-> "init", inst |-> "model", arg |-> << >>, src |-> "none",
              pre |-> Unbound, err |-> NoError, ret |-> NoReturn]
   /\ metrics = NoMetrics

NextServer ==
   \/ ServerNew
   \/ ServerStart
   \/ ServerStop
   \/ Validate
   \/ ResetConfig

SpecServer == InitServer /\ [][NextServer]_vars

-----------------------------------------------------------------------------
(* Properties *)

\* the instance the latest call was made on, as it is now
Now == models[last.inst]

\* the caller's record for that instance
NowLog == log[last.inst]

IsGenerating(m) == m.kind \in Generating

\* the continuity state of a generating instance
Continuity(m) == IF m.kind = "pi0" THEN m.last_action ELSE m.action_history

\* the exception is the RuntimeError of _check_loaded ("... not loaded ...")
IsNotLoaded(e) ==
   /\ e.kind = "RuntimeError"
   /\ \E k \in 1..Len(e.msg) : e.msg[k] = " model not loaded. "

\* the chunks the latest call returned
ReturnedChunks ==
   CASE last.op = "predict" /\ last.err = NoError -> { last.ret[1] }
     [] last.op = "predict_batch" /\ last.err = NoError ->
           { last.ret[1][k] : k \in 1..Len(last.ret[1]) }
     [] OTHER -> {}

\* predict applied to observations[k], observations[k + 1], ... one after
\* the other, each on the instance the one before left: the chunks returned,
\* followed by the instance left at the end
RECURSIVE PredictEach(_, _, _, _)
PredictEach(m, observations, src, k) ==
   IF k > Len(observations)
   THEN <<m>>
   ELSE LET out == predict(m, observations[k], src)
        IN  <<out.ret[1]>> \o PredictEach(out.model, observations, src, k + 1)

\* C1: on a generating backend the chunks received since the load that took
\* the instance from Unloaded to Loaded carry the sequence numbers 1, 2, ..., N
\* in call order; in particular the first one after a load, and the first
\* one after unload and a fresh load, carries 1.
C1_Sequencing ==
   \A i \in DOMAIN models :
      IsGenerating(models[i]) =>
         \A k \in 1..Len(log[i].seqs) : log[i].seqs[k] = k

\* an instance that was used, unloaded and loaded again has just returned
\* its MaxSeq-th chunk since that load
C1_Witness ==
   /\ last.op = "predict"
   /\ last.err = NoError
   /\ NowLog.reloaded
   /\ NowLog.seqs = [k \in 1..MaxSeq |-> k]

\* C2: predict on an Unloaded generating backend raises the "not loaded"
\* error, returns nothing and leaves the instance (is_loaded, device,
\* sequence counter, continuity state) as it was.
C2_PredictUnloaded ==
   (last.op = "predict" /\ IsGenerating(last.pre) /\ ~last.pre.loaded) =>
      /\ IsNotLoaded(last.err)
      /\ last.ret = NoReturn
      /\ Now = last.pre
      /\ ~is_loaded(Now)

\* predict on an instance that was unloaded after it had returned chunks
C2_Witness ==
   /\ last.op = "predict"
   /\ IsGenerating(last.pre)
   /\ ~last.pre.loaded
   /\ NowLog.seqs # << >>

\* C3 (as claimed): predict before any load raises the NotLoaded kind on
\* every backend, the unavailable one included.
C3_Original ==
   (last.op = "predict" /\ ~NowLog.load_called) => IsNotLoaded(last.err)

\* C3 (amended): predict before any load raises the NotLoaded kind on the
\* generating backends and GR00TNotAvailableError on the unavailable one;
\* on all three it returns nothing.
C3_PredictBeforeLoad ==
   (last.op = "predict" /\ ~NowLog.load_called) =>
      /\ last.ret = NoReturn
      /\ IsGenerating(last.pre) => IsNotLoaded(last.err)
      /\ last.pre.kind = "groot" => last.err.kind = "GR00TNotAvailableError"

\* predict on a GR00TModel that load was never called on
C3_Witness ==
   /\ last.op = "predict"
   /\ ~NowLog.load_called
   /\ last.pre.kind = "groot"

\* C4: load on an Unloaded generating backend succeeds for every device and
\* checkpoint path; afterwards the instance is loaded, device and checkpoint
\* path are the arguments, the counter is 0 and the continuity state empty.
C4_LoadFromUnloaded ==
   (last.op = "load" /\ IsGenerating(last.pre) /\ ~last.pre.loaded) =>
      /\ last.err = NoError
      /\ is_loaded(Now)
      /\ Now.checkpoint_path = last.arg[1]
      /\ device(Now) = last.arg[2]
      /\ Now.sequence_counter = 0
      /\ Continuity(Now) = << >>

\* a Pi0Model that had been used on "cpu" is loaded again on another device
C4_Witness ==
   /\ last.op = "load"
   /\ last.pre.kind = "pi0"
   /\ ~last.pre.loaded
   /\ NowLog.reloaded
   /\ last.pre.device = "cpu"
   /\ last.arg = <<"/ckpt/a", "cuda:0">>

\* C5: load on a Loaded generating backend raises nothing and keeps it
\* Loaded with its counter and continuity state; after k chunks and such a
\* load the next predict returns sequence number k + 1 and the chunk and
\* continuity state it would have produced without the load.
C5_LoadIdempotent ==
   (last.op = "load" /\ IsGenerating(last.pre) /\ last.pre.loaded) =>
      /\ last.err = NoError
      /\ is_loaded(Now)
      /\ Now.sequence_counter = last.pre.sequence_counter
      /\ Continuity(Now) = Continuity(last.pre)
      /\ \A obs \in Observations, src \in RandomSources :
            LET with    == predict(Now, obs, src)
                without == predict(last.pre, obs, src)
            IN  /\ with.err = NoError
                /\ with.ret[1].sequence_number = Len(NowLog.seqs) + 1
                /\ with.ret = without.ret
                /\ Continuity(with.model) = Continuity(without.model)

\* a redundant load, naming another device, after at least one chunk
C5_Witness ==
   /\ last.op = "load"
   /\ last.pre.kind = "openvla"
   /\ last.pre.loaded
   /\ Len(NowLog.seqs) >= 1
   /\ last.arg[2] # last.pre.device

\* C6: unload never raises, on any backend; on a Loaded generating backend it
\* moves to Unloaded with counter 0 and empty continuity state; on an
\* Unloaded generating backend it changes nothing.
C6_Unload ==
   last.op = "unload" =>
      /\ last.err = NoError
      /\ (IsGenerating(last.pre) /\ last.pre.loaded) =>
            /\ ~is_loaded(Now)
            /\ Now.sequence_counter = 0
            /\ Continuity(Now) = << >>
      /\ (IsGenerating(last.pre) /\ ~last.pre.loaded) => Now = last.pre

\* a Pi0Model is unloaded after it has returned chunks
C6_Witness ==
   /\ last.op = "unload"
   /\ last.pre.kind = "pi0"
   /\ last.pre.loaded
   /\ last.pre.sequence_counter >= 1
   /\ last.pre.last_action # NoAction

\* C7: predict_batch on a Loaded generating backend with counter c and a
\* list of K observations returns K chunks, the k-th being what predict
\* returns for the k-th observation after the k - 1 before it, numbered
\* c + 1 .. c + K, and leaves the counter at c + K.
C7_BatchLaw ==
   (last.op = "predict_batch" /\ IsGenerating(last.pre) /\ last.pre.loaded) =>
      LET K    == Len(last.arg)
          c    == last.pre.sequence_counter
          each == PredictEach(last.pre, last.arg, last.src, 1)
      IN  /\ last.err = NoError
          /\ Len(last.ret) = 1
          /\ Len(last.ret[1]) = K
          /\ \A k \in 1..K :
                /\ last.ret[1][k] = each[k]
                /\ last.ret[1][k].sequence_number = c + k
          /\ Now.sequence_counter = c + K

\* a batch of two different observations on a loaded Pi0Model
C7_Witness ==
   /\ last.op = "predict_batch"
   /\ last.pre.kind = "pi0"
   /\ last.pre.loaded
   /\ Len(last.arg) = 2
   /\ last.arg[1] # last.arg[2]
   /\ last.err = NoError

\* C8: predict_batch on an Unloaded generating backend raises the "not
\* loaded" error for every list, the empty one included, and changes nothing.
C8_BatchUnloaded ==
   (last.op = "predict_batch" /\ IsGenerating(last.pre) /\ ~last.pre.loaded) =>
      /\ IsNotLoaded(last.err)
      /\ last.ret = NoReturn
      /\ Now = last.pre

\* the empty list handed to an unloaded OpenVLAModel
C8_Witness ==
   /\ last.op = "predict_batch"
   /\ last.pre.kind = "openvla"
   /\ ~last.pre.loaded
   /\ last.arg = << >>

\* C9: every returned chunk has chunk_size actions (16 for Pi0Model, 8 for
\* OpenVLAModel), each with exactly 6 joint commands.
C9_ChunkShape ==
   \A ch \in ReturnedChunks :
      /\ Len(ch.actions) = chunk_size(last.pre)
      /\ Len(ch.actions) = IF last.pre.kind = "pi0" THEN 16 ELSE 8
      /\ \A n \in 1..Len(ch.actions) : Len(ch.actions[n].joint_commands) = 6

\* an OpenVLAModel predicts from its stored history for an observation with
\* seven joint positions
C9_Witness ==
   /\ last.op = "predict"
   /\ last.err = NoError
   /\ last.pre.kind = "openvla"
   /\ last.pre.action_history # << >>
   /\ Len(last.arg.joint_positions) > 6

\* C10: in every returned chunk every joint command lies in [-1, 1] and
\* every gripper command in [0, 1].
C10_Bounds ==
   \A ch \in ReturnedChunks :
      \A n \in 1..Len(ch.actions) :
         /\ ch.actions[n].gripper_command >= 0
         /\ ch.actions[n].gripper_command <= One
         /\ \A j \in 1..Len(ch.actions[n].joint_commands) :
               /\ ch.actions[n].joint_commands[j] >= -One
               /\ ch.actions[n].joint_commands[j] <= One

\* a Pi0Model seeded from joint positions outside [-1, 1] returns a chunk in
\* which a joint command sits on the bound
C10_Witness ==
   /\ last.op = "predict"
   /\ last.err = NoError
   /\ last.pre.kind = "pi0"
   /\ \E j \in 1..Len(last.arg.joint_positions) : last.arg.joint_positions[j] > One
   /\ \E n \in 1..Len(last.ret[1].actions) :
         \E j \in 1..6 : last.ret[1].actions[n].joint_commands[j] = One


\* C11: in every chunk a Pi0Model returns, any two consecutive actions differ
\* in every joint command by less than 0.2; more precisely by at most 0.02,
\* the largest delta a step adds, which clamping never enlarges.
C11_Smoothness ==
   \A ch \in ReturnedChunks :
      last.pre.kind = "pi0" =>
         \A n \in 1..(Len(ch.actions) - 1) :
            \A j \in 1..Len(ch.actions[n].joint_commands) :
               LET d == ch.actions[n + 1].joint_commands[j]
                           - ch.actions[n].joint_commands[j]
               IN  /\ d < Frac(2, 10) /\ -d < Frac(2, 10)
                   /\ d <= Frac(2, 100) /\ -d <= Frac(2, 100)

\* a Pi0Model returned a chunk in which one joint moves by the full 0.02
\* from one action to the next and another joint is held back at the bound
C11_Witness ==
   /\ last.op = "predict"
   /\ last.err = NoError
   /\ last.pre.kind = "pi0"
   /\ LET a == last.ret[1].actions
      IN  /\ \E n \in 1..(Len(a) - 1), j \in 1..6 :
                a[n + 1].joint_commands[j] - a[n].joint_commands[j] = Frac(2, 100)
          /\ \E n \in 1..(Len(a) - 1), j \in 1..6 :
                /\ a[n].joint_commands[j] = One
                /\ a[n + 1].joint_commands[j] = One

\* C12: load on a GR00TModel raises GR00TNotAvailableError for every
\* checkpoint and device argument and in every state; the message says "not
\* yet available" and names the pi0 backend; the instance, so is_loaded
\* (false) and device, stays as it was.
C12_GrootLoad ==
   (last.op = "load" /\ last.pre.kind = "groot") =>
      /\ last.err.kind = "GR00TNotAvailableError"
      /\ \E k \in 1..Len(last.err.msg) : last.err.msg[k] = "not yet available"
      /\ \E k \in 1..Len(last.err.msg) : last.err.msg[k] = "pi0"
      /\ last.ret = NoReturn
      /\ ~is_loaded(Now)
      /\ device(Now) = device(last.pre)
      /\ Now = last.pre

\* load was called on a GR00TModel with a checkpoint and a device other than
\* the one the instance reports
C12_Witness ==
   /\ last.op = "load"
   /\ last.pre.kind = "groot"
   /\ last.arg[1] # None
   /\ last.arg[2] # device(last.pre)

\* C13: a GR00TModel is never loaded, whatever was called on it, and its
\* predict and predict_batch raise, for every input, the empty batch
\* included, the kind of error its load raises.
C13_GrootNeverLoaded ==
   /\ \A i \in DOMAIN models : models[i].kind = "groot" => ~is_loaded(models[i])
   /\ (last.op \in {"predict", "predict_batch"} /\ last.pre.kind = "groot") =>
         /\ last.err.kind = GR00T_load(last.pre, None, "cpu").err.kind
         /\ last.err # NoError
         /\ last.ret = NoReturn

\* predict_batch was called with an empty list on a GR00TModel on which
\* load had been attempted
C13_Witness ==
   /\ last.op = "predict_batch"
   /\ last.pre.kind = "groot"
   /\ last.arg = << >>
   /\ NowLog.load_called

\* C17: model_info and chunk_size have a value in every state of every
\* backend, model_info.chunk_size is chunk_size, and both are what they
\* were before the latest call and what a new instance reports.
C17_StaticInfo ==
   \A i \in DOMAIN models :
      LET m == models[i]
      IN  /\ chunk_size(m) \in {Pi0_CHUNK_SIZE, OpenVLA_CHUNK_SIZE, GR00T_CHUNK_SIZE}
          /\ model_info(m).chunk_size = chunk_size(m)
          /\ model_info(m) = model_info(New(m.kind))
          /\ chunk_size(m) = chunk_size(New(m.kind))
          /\ i = last.inst =>
                /\ model_info(m) = model_info(last.pre)
                /\ chunk_size(m) = chunk_size(last.pre)

\* a model that had been loaded and had returned chunks was unloaded
C17_Witness ==
   /\ last.op = "unload"
   /\ last.pre.loaded
   /\ NowLog.seqs # << >>

\* a and b are the same string up to the case of their letters
SameUpToCase(a, b) ==
   /\ Len(a) = Len(b)
   /\ \A k \in 1..Len(a) :
         \/ a[k] = b[k]
         \/ \E n \in 1..Len(Upper) : {a[k], b[k]} = {Upper[n], Lower[n]}

\* the class create_model answers an identifier with
ClassOf(model_type) ==
   CASE SameUpToCase(model_type, <<"p", "i", "0">>) -> "pi0"
     [] SameUpToCase(model_type, <<"p", "i", "0", "_", "6">>) -> "pi0"
     [] SameUpToCase(model_type, <<"o", "p", "e", "n", "v", "l", "a">>) -> "openvla"
     [] SameUpToCase(model_type, <<"g", "r", "o", "o", "t">>) -> "groot"
     [] OTHER -> "unknown"

\* C14: create_model returns a Pi0Model for "pi0" and for "pi0_6", an
\* OpenVLAModel for "openvla" and a GR00TModel for "groot", whatever the
\* case of the letters of the identifier.
C14_FactoryMapping ==
   (last.op = "create_model" /\ ClassOf(last.arg) # "unknown") =>
      /\ last.err = NoError
      /\ last.ret # NoReturn
      /\ last.ret[1].kind = ClassOf(last.arg)
      /\ models[last.inst] = last.ret[1]

\* the alias, written with capitals, gave a Pi0Model
C14_Witness ==
   /\ last.op = "create_model"
   /\ last.arg = <<"P", "i", "0", "_", "6">>
   /\ last.err = NoError
   /\ models[last.inst].kind = "pi0"

\* "groot, openvla, pi0, pi0_6"
SortedModelTypes ==
   <<"g", "r", "o", "o", "t", ",", " ", "o", "p", "e", "n", "v", "l", "a",
     ",", " ", "p", "i", "0", ",", " ", "p", "i", "0", "_", "6">>

\* C15: create_model with an identifier that is none of pi0, pi0_6,
\* openvla, groot up to case raises ValueError and returns nothing, the
\* caller's variable keeps what it held, and the message carries the
\* identifier as given and the list "groot, openvla, pi0, pi0_6".
C15_UnknownModelType ==
   (last.op = "create_model" /\ ClassOf(last.arg) = "unknown") =>
      /\ last.err.kind = "ValueError"
      /\ last.ret = NoReturn
      /\ IF last.pre = Unbound
         THEN last.inst \notin DOMAIN models
         ELSE models[last.inst] = last.pre
      /\ last.err.msg[1] = "Unknown model type: "
      /\ last.err.msg[2] = last.arg
      /\ last.err.msg[4] = "Available: "
      /\ last.err.msg[5] = SortedModelTypes

\* an identifier one character away from a known one was rejected while the
\* variable held a loaded model
C15_Witness ==
   /\ last.op = "create_model"
   /\ last.arg = <<"p", "i", "0", "_">>
   /\ last.err # NoError
   /\ last.pre # Unbound
   /\ last.pre.loaded

\* C16: the instance create_model returns is in the state __init__ leaves:
\* not loaded, and for a generating backend counter 0 and no continuity
\* state; load has not been called on it, and predict called on it before
\* any load raises and returns nothing.
C16_FactoryConstructsOnly ==
   /\ (last.op = "create_model" /\ last.err = NoError) =>
         LET m == models[last.inst]
         IN  /\ m = last.ret[1]
             /\ ~is_loaded(m)
             /\ IsGenerating(m) =>
                   /\ m.sequence_counter = 0
                   /\ Continuity(m) = << >>
             /\ ~log[last.inst].load_called
             /\ LET out == predict(m, FactoryObservation, "hi")
                IN  out.err # NoError /\ out.ret = NoReturn /\ out.model = m
   /\ (last.op = "predict" /\ ~log[last.inst].load_called) =>
         /\ last.err # NoError
         /\ last.ret = NoReturn

\* predict was called on a generating model fresh from the factory
C16_Witness ==
   /\ last.op = "predict"
   /\ IsGenerating(last.pre)
   /\ ~log[last.inst].load_called
   /\ last.err # NoError

\* C20: load, predict, predict_batch and unload on one instance leave
\* every other instance (is_loaded, device, sequence counter, continuity
\* state) as it was, also an instance of the same class obtained from
\* create_model with the same identifier.
C20_Isolation ==
   [][ last'.op \in {"load", "predict", "predict_batch", "unload"} =>
          \A i \in DOMAIN models :
             i # last'.inst => i \in DOMAIN models' /\ models'[i] = models[i]
     ]_vars

\* two Pi0Models were created with the same identifier; one has been loaded
\* and has returned a chunk, the other has not been touched
C20_Witness ==
   /\ DOMAIN models = Handles
   /\ log["a"].model_type = log["b"].model_type
   /\ models["a"].kind = "pi0"
   /\ models["b"].kind = "pi0"
   /\ last.op = "predict"
   /\ last.inst = "a"
   /\ last.err = NoError
   /\ models["a"].sequence_counter = 1
   /\ models["b"] = Pi0_init
   /\ ~log["b"].load_called

\* C18: a predict on a generating backend that raises, or is interrupted
\* while it sleeps, returns nothing and leaves the sequence counter and the
\* continuity state (last action, action history) as they were; a predict
\* that returns a chunk has advanced the counter by one.
C18_AllOrNothing ==
   (last.op = "predict" /\ IsGenerating(last.pre)) =>
      IF last.err # NoError
      THEN /\ last.ret = NoReturn
           /\ Now.sequence_counter = last.pre.sequence_counter
           /\ Continuity(Now) = Continuity(last.pre)
           /\ Now = last.pre
      ELSE /\ last.ret # NoReturn
           /\ Now.sequence_counter = last.pre.sequence_counter + 1

\* a loaded Pi0Model that had predicted before was handed an observation
\* without a timestamp, which stops the loop in its first pass
C18_Witness ==
   /\ last.op = "predict"
   /\ last.pre.kind = "pi0"
   /\ last.pre.loaded
   /\ last.pre.last_action # NoAction
   /\ last.err = BadOperand

\* the exception of the first predict that raises when predict is applied
\* to observations[k], observations[k + 1], ... one after the other, NoError
\* if none does
RECURSIVE FirstFailure(_, _, _, _)
FirstFailure(m, observations, src, k) ==
   IF k > Len(observations)
   THEN NoError
   ELSE LET out == predict(m, observations[k], src)
        IN  IF out.err # NoError
            THEN out.err
            ELSE FirstFailure(out.model, observations, src, k + 1)

\* C19: when the predict of some observation of the list raises,
\* predict_batch raises the same kind of exception and returns no list.
C19_BatchPropagates ==
   last.op = "predict_batch" =>
      LET e == FirstFailure(last.pre, last.arg, last.src, 1)
      IN  e # NoError =>
             /\ last.err.kind = e.kind
             /\ last.ret = NoReturn

\* a loaded OpenVLAModel got a list whose first observation it predicted
\* and whose second has no instruction
C19_Witness ==
   /\ last.op = "predict_batch"
   /\ last.pre.kind = "openvla"
   /\ last.pre.loaded
   /\ Len(last.arg) >= 2
   /\ last.arg[1].none_attrs = {}
   /\ IsNone(last.arg[2], "language_instruction")
   /\ last.err = NoAttribute

\* C24: a generating backend that is not loaded has sequence counter 0 and
\* an empty continuity state; one that is loaded has as its counter the
\* number of chunks it returned since the load that took it from Unloaded to
\* Loaded.
C24_UnloadedIsEmpty ==
   \A i \in DOMAIN models :
      IsGenerating(models[i]) =>
         IF ~models[i].loaded
         THEN /\ models[i].sequence_counter = 0
              /\ Continuity(models[i]) = << >>
         ELSE models[i].sequence_counter = Len(log[i].seqs)

\* an OpenVLAModel with entries in its history has just been unloaded
C24_Witness ==
   /\ last.op = "unload"
   /\ last.pre.kind = "openvla"
   /\ last.pre.loaded
   /\ last.pre.action_history # << >>
   /\ ~Now.loaded

\* the call took the instance from Unloaded to Loaded
Transition == last.op = "load" /\ ~last.pre.loaded /\ last.err = NoError

\* C25: device and checkpoint path are those of the latest load that took
\* the instance from Unloaded to Loaded, "cpu" and None before any: such a
\* load sets them to its arguments, and a load on a loaded instance,
\* predict, predict_batch and unload leave them as they were.
C25_DeviceOfLastLoad ==
   /\ last.op = "init" => /\ device(Now) = "cpu"
                          /\ Now.checkpoint_path = None
   /\ Transition => /\ device(Now) = last.arg[2]
                    /\ Now.checkpoint_path = last.arg[1]
   /\ (last.op # "init" /\ ~Transition) =>
         /\ device(Now) = device(last.pre)
         /\ Now.checkpoint_path = last.pre.checkpoint_path
   /\ \A i \in DOMAIN models :
         ~log[i].load_called => device(models[i]) = "cpu"

\* a model loaded on cuda:0 has been unloaded and still reports cuda:0
C25_Witness ==
   /\ last.op = "unload"
   /\ IsGenerating(last.pre)
   /\ last.pre.loaded
   /\ ~Now.loaded
   /\ device(Now) = "cuda:0"
   /\ Now.checkpoint_path = "/ckpt/a"

\* every joint of b is within 0.02 of the same joint of a
WithinStep(a, b) ==
   /\ Len(a) = Len(b)
   /\ \A j \in 1..Len(a) : /\ b[j] - a[j] <= Frac(2, 100)
                           /\ a[j] - b[j] <= Frac(2, 100)

\* the chunks the latest call returned, in the order of the calls
ReturnedList ==
   CASE last.op = "predict" /\ last.err = NoError -> <<last.ret[1]>>
     [] last.op = "predict_batch" /\ last.err = NoError -> last.ret[1]
     [] OTHER -> << >>

\* C26: a Pi0Model keeps the final joint vector of the chunk it returns and
\* starts its next chunk from it, so the first action of a chunk is within
\* 0.02 per joint of the last action of the chunk before it.
C26_CrossChunkContinuity ==
   (last.pre.kind = "pi0" /\ ReturnedList # << >>) =>
      LET chunks == ReturnedList
          final(ch) == ch.actions[Len(ch.actions)].joint_commands
      IN  /\ Now.last_action = final(chunks[Len(chunks)])
          /\ last.pre.last_action # NoAction =>
                WithinStep(last.pre.last_action,
                           chunks[1].actions[1].joint_commands)
          /\ \A k \in 1..(Len(chunks) - 1) :
                WithinStep(final(chunks[k]),
                           chunks[k + 1].actions[1].joint_commands)

\* a Pi0Model that had returned a chunk for one observation returned the
\* next chunk for an observation with other joint positions
C26_Witness ==
   /\ last.op = "predict"
   /\ last.err = NoError
   /\ last.pre.kind = "pi0"
   /\ last.pre.last_action # NoAction
   /\ last.pre.last_action[1] < Frac(5, 10)
   /\ Len(last.arg.joint_positions) > 0
   /\ last.arg.joint_positions[1] > One

\* the first six joint positions, each brought into [-1, 1], 0.0 where the
\* observation has fewer than six
SixJoints(obs) ==
   [j \in 1..6 |->
      IF j > Len(obs.joint_positions) THEN 0
      ELSE IF obs.joint_positions[j] > One THEN One
      ELSE IF obs.joint_positions[j] < -One THEN -One
      ELSE obs.joint_positions[j]]

\* C27: without continuity state a generating backend starts from six
\* values, the first six joint positions of the observation clamped to
\* [-1, 1] and padded with 0.0; the first action is one step from them.
C27_FirstCallSeeding ==
   (last.op = "predict" /\ last.err = NoError /\ IsGenerating(last.pre)
      /\ Continuity(last.pre) = << >>) =>
      LET first == last.ret[1].actions[1].joint_commands
      IN  /\ Len(first) = 6
          /\ last.pre.kind = "pi0" =>
                first = Pi0_step(SixJoints(last.arg), 0)
          /\ last.pre.kind = "openvla" =>
                first = OpenVLA_step(SixJoints(last.arg),
                                     generate_target(last.arg, last.src),
                                     last.src, 0)

\* the first predict of a Pi0Model got an observation with two joint
\* positions, one of them outside [-1, 1]
C27_Witness ==
   /\ last.op = "predict"
   /\ last.err = NoError
   /\ last.pre.kind = "pi0"
   /\ last.pre.last_action = NoAction
   /\ Len(last.arg.joint_positions) = 2
   /\ last.arg.joint_positions[1] > One

\* C28: the n-th chunk a Pi0Model returns since its load is computed with
\* the phase indices (n - 1) * 16 + i, i = 0 .. 15: its grippers are those of
\* these phases and each action is the one before it moved by the deltas of
\* its phase; n counts from 1 again after unload and load.
C28_PhaseContinuity ==
   (last.pre.kind = "pi0" /\ ReturnedList # << >>) =>
      \A k \in 1..Len(ReturnedList) :
         LET n  == Len(NowLog.seqs) - Len(ReturnedList) + k
             a  == ReturnedList[k].actions
             ph(i) == (n - 1) * 16 + i
         IN  /\ n >= 1
             /\ Len(a) = 16
             /\ \A i \in 0..15 : a[i + 1].gripper_command = Pi0_gripper(ph(i))
             /\ \A i \in 1..15 : \A j \in 1..6 :
                   a[i + 1].joint_commands[j]
                      = Max2(-One, Min2(One, a[i].joint_commands[j]
                                             + Pi0_delta(ph(i), j - 1)))

\* a Pi0Model that had returned chunks, was unloaded and loaded again has
\* returned its second chunk since
C28_Witness ==
   /\ last.op = "predict"
   /\ last.err = NoError
   /\ last.pre.kind = "pi0"
   /\ NowLog.reloaded
   /\ Len(NowLog.seqs) = 2

\* the confidence c lies within 0.05 of base and within [lo, 1]
ConfidenceNear(c, base, lo) ==
   /\ c >= lo /\ c <= One
   /\ c >= 0
   /\ c >= base - Frac(5, 100)
   /\ c <= base + Frac(5, 100)

IsIn(tag, tags) == \E k \in 1..Len(tags) : tags[k] = tag

\* C29: the confidence of a Pi0Model is within 0.05 of 0.9 for a supported
\* embodiment tag and of 0.6 otherwise, and at least 0.5; that of an
\* OpenVLAModel within 0.05 of 0.85 or 0.55, and at least 0.4; so it is in
\* [0, 1], and above 0.75 (pi0) or 0.7 (openvla) exactly for the supported
\* tags, whatever the noise drawn.
C29_Confidence ==
   (last.op = "predict" /\ last.err = NoError /\ IsGenerating(last.pre)) =>
      LET obs == last.arg
          pi0 == last.pre.kind = "pi0"
          supported == IF pi0 THEN IsIn(obs.embodiment_tag, Pi0_SUPPORTED_EMBODIMENTS)
                       ELSE IsIn(obs.embodiment_tag, OpenVLA_SUPPORTED_EMBODIMENTS)
          base == IF pi0 THEN (IF supported THEN Frac(9, 10) ELSE Frac(6, 10))
                  ELSE (IF supported THEN Frac(85, 100) ELSE Frac(55, 100))
          lo   == IF pi0 THEN Frac(5, 10) ELSE Frac(4, 10)
          mid  == IF pi0 THEN Frac(75, 100) ELSE Frac(7, 10)
          ok(c) == ConfidenceNear(c, base, lo) /\ (supported <=> c > mid)
      IN  /\ ok(last.ret[1].confidence)
          /\ \A n \in 0..2 :
                ok(IF pi0 THEN Pi0_calculate_confidence(obs, "alt", n)
                   ELSE OpenVLA_calculate_confidence(obs, "alt", n))

\* a Pi0Model returned a chunk for a tag it does not support with the
\* largest noise
C29_Witness ==
   /\ last.op = "predict"
   /\ last.err = NoError
   /\ last.pre.kind = "pi0"
   /\ last.arg.embodiment_tag = "unknown_bot"
   /\ last.ret[1].confidence = Frac(65, 100)

\* C30: the action history of an OpenVLAModel holds the entries of its
\* latest predicts since the load, at most 10 of them: a predict that
\* returns a chunk puts one entry at the tail, and drops the oldest entry
\* when that makes 11.
C30_BoundedHistory ==
   \A i \in DOMAIN models :
      models[i].kind = "openvla" =>
         LET h == models[i].action_history
         IN  /\ Len(h) <= 10
             /\ models[i].loaded =>
                   Len(h) = Min2(Len(log[i].seqs), 10)
             /\ (i = last.inst /\ last.op = "predict" /\ last.err = NoError) =>
                   LET before == last.pre.action_history
                       acts   == last.ret[1].actions
                   IN  /\ SubSeq(h[Len(h)], 1, 6)
                             = acts[Len(acts)].joint_commands
                       /\ IF Len(before) < 10
                          THEN h = Append(before, h[Len(h)])
                          ELSE h = Append(Tail(before), h[Len(h)])

\* an OpenVLAModel with ten entries in its history has returned another
\* chunk
C30_Witness ==
   /\ last.op = "predict"
   /\ last.err = NoError
   /\ last.pre.kind = "openvla"
   /\ Len(last.pre.action_history) = 10
   /\ Len(Now.action_history) = 10
   /\ Now.sequence_counter = 11


\* the numeric settings of the configuration that have to be positive
NumericSettings ==
   {"batch_size", "max_batch_wait_ms", "timeout_ms", "image_width",
    "image_height", "action_dim", "chunk_size", "max_workers",
    "max_message_size_mb", "health_check_interval_s"}

\* "cpu", "cuda", or "cuda:N" for a non-negative integer N
IsDeviceForm(d) ==
   \/ d = <<"c", "p", "u">>
   \/ d = <<"c", "u", "d", "a">>
   \/ /\ Len(d) > 5
      /\ SubSeq(d, 1, 5) = <<"c", "u", "d", "a", ":">>
      /\ \A k \in 6..Len(d) : IsDigit(d[k])

\* the list of messages holds one about the device
HasDeviceError(errors) ==
   \E k \in 1..Len(errors) : errors[k][1] = "Invalid device: "

\* C21: the server refuses to start on an invalid configuration: start never
\* constructs the servicer, and with it a backend, from a configuration for
\* which validate returns a non-empty list of errors.
C21_RefusesInvalidConfiguration ==
   server.servicer # NoServicer => validate(server.servicer.config) = << >>

\* C22: validate reports an error whenever a numeric setting of the
\* configuration is not positive and whenever the gRPC port is outside
\* 1..65535.
C22_NumericSettingsValidated ==
   last.op = "validate" =>
      ((\/ \E f \in NumericSettings : last.arg[f] < 1
        \/ last.arg.grpc_port < 1
        \/ last.arg.grpc_port > 65535)
          => last.ret[1] # << >>)

\* C23: validate accepts a device string exactly when it is "cpu", "cuda" or
\* "cuda:N" for a non-negative integer N, and reports a device error for
\* every other string.
C23_DeviceAccepted ==
   last.op = "validate" =>
      (~HasDeviceError(last.ret[1]) <=> IsDeviceForm(last.arg.device))


\* C31: every entry of the action history of the target-tracking backend is
\* one (position, gripper) record: six joint positions followed by one
\* gripper value, seven numbers, after any number of successful predicts.
C31_HistoryEntryShape ==
   \A i \in DOMAIN models :
      models[i].kind = "openvla" =>
         \A k \in 1..Len(models[i].action_history) :
            Len(models[i].action_history[k]) = 7

\* the gripper value the latest history entry of m was stored with
StoredGripper(m) ==
   LET entry == m.action_history[Len(m.action_history)]
   IN  entry[Len(entry)]

\* the gripper commands of the chunk just returned are the blend that starts
\* from g
BlendsFrom(g) ==
   \A k \in 1..Len(last.ret[1].actions) :
      last.ret[1].actions[k].gripper_command
         = OpenVLA_gripper(g, OpenVLA_gripper_target(last.arg), last.src, k - 1)

\* C32: in the n-th predict since load (n >= 2) the gripper blend starts from
\* the gripper value stored by the (n-1)-th predict, and from 0.5 only when
\* no predict has happened since load.
C32_GripperContinuity ==
   (/\ last.op = "predict"
    /\ last.err = NoError
    /\ last.pre.kind = "openvla")
      => IF last.pre.action_history = << >>
         THEN BlendsFrom(Frac(1, 2))
         ELSE BlendsFrom(StoredGripper(last.pre))


\* the lower-cased instruction of the latest call contains the keyword
Mentions(word) == Contains(word, lower(last.arg.language_instruction))

\* the target vector the keywords of the instruction select, by priority
SelectedTarget ==
   IF Mentions(<<"p","i","c","k">>) \/ Mentions(<<"g","r","a","b">>)
   THEN <<Frac(3, 10), Frac(2, 10), -Frac(4, 10), 0, Frac(5, 10), 0>>
   ELSE IF Mentions(<<"p","l","a","c","e">>) \/ Mentions(<<"p","u","t">>)
   THEN <<Frac(2, 10), Frac(3, 10), Frac(1, 10), 0, Frac(2, 10), 0>>
   ELSE IF Mentions(<<"m","o","v","e">>)
   THEN <<Frac(1, 10), Frac(1, 10), 0, 0, 0, 0>>
   ELSE <<0, 0, 0, 0, 0, 0>>

\* C33: the target is selected by keyword priority on the lower-cased
\* instruction: pick or grab first, whatever else it contains, then place or
\* put, then move, otherwise all zero; each of the six components is then
\* perturbed by at most 0.1.
C33_TargetPriority ==
   last.op = "_generate_target" =>
      /\ Len(last.ret[1]) = 6
      /\ \A j \in 1..6 :
            /\ last.ret[1][j] - SelectedTarget[j] <= Frac(1, 10)
            /\ SelectedTarget[j] - last.ret[1][j] <= Frac(1, 10)

\* a target has been generated for an instruction that names both pick and
\* place, and it is the pick target
C33_Witness ==
   /\ last.op = "_generate_target"
   /\ Mentions(<<"p","i","c","k">>)
   /\ Mentions(<<"p","l","a","c","e">>)
   /\ last.ret[1][3] < 0


\* the target of the latest predict and the positions its trajectory
\* started from
TargetOfCall == generate_target(last.arg, last.src)

StartOfCall ==
   IF last.pre.action_history # << >>
   THEN last.pre.action_history[Len(last.pre.action_history)]
   ELSE SeedFromObservation(last.arg)

\* the position of joint j before step k (1-based) of the returned chunk,
\* the command emitted for it and that command without the step's noise
PreviousPosition(k, j) ==
   IF k = 1
   THEN StartOfCall[j]
   ELSE last.ret[1].actions[k - 1].joint_commands[j]

Emitted(k, j) == last.ret[1].actions[k].joint_commands[j]

Stepped(k, j) ==
   Emitted(k, j) - Uniform(-Frac(1, 100), Frac(1, 100), last.src,
                           OpenVLA_draw(k - 1, 2 * (j - 1) + 1))

OpenVLAReturned ==
   /\ last.op = "predict"
   /\ last.err = NoError
   /\ last.pre.kind = "openvla"

\* C34: no overshoot: at every step and for every joint the stepped position
\* before noise lies between the previous position and the target, at most
\* 0.07 from the previous position, so the emitted command lies beyond the
\* target by at most the noise of 0.01.
C34_NoOvershoot ==
   OpenVLAReturned =>
      \A k \in 1..Len(last.ret[1].actions), j \in 1..6 :
         /\ Min2(PreviousPosition(k, j), TargetOfCall[j]) <= Stepped(k, j)
         /\ Stepped(k, j) <= Max2(PreviousPosition(k, j), TargetOfCall[j])
         /\ Stepped(k, j) - PreviousPosition(k, j) <= Frac(7, 100)
         /\ PreviousPosition(k, j) - Stepped(k, j) <= Frac(7, 100)
         /\ Emitted(k, j) <= Max2(PreviousPosition(k, j), TargetOfCall[j])
                                + Frac(1, 100)
         /\ Emitted(k, j) >= Min2(PreviousPosition(k, j), TargetOfCall[j])
                                - Frac(1, 100)

\* a joint less than one step from its target has been stepped onto it
C34_Witness ==
   /\ OpenVLAReturned
   /\ \E k \in 1..Len(last.ret[1].actions), j \in 1..6 :
         /\ PreviousPosition(k, j) # TargetOfCall[j]
         /\ Stepped(k, j) = TargetOfCall[j]


\* the instance holds continuity state: a predict has succeeded since load
HasContinuity(m) ==
   CASE m.kind = "pi0"     -> m.last_action # NoAction
     [] m.kind = "openvla" -> m.action_history # << >>
     [] OTHER              -> FALSE

\* the joint positions and session ids the second run of the same backend
\* is given in place of those of the observation
OtherJointPositions ==
   { << >>, <<-One, One, -One, One, -One, One>>,
     <<7000, 7000, 7000, 7000, 7000, 7000, 7000>> }

OtherSessions == { None, "s1", "s9" }

\* the latest predict, run again from the same state with the same random
\* draws on obs, returns the same chunk and leaves the same state
SameAsRun(obs) ==
   LET again == predict(last.pre, obs, last.src)
   IN  /\ again.err = NoError
       /\ again.ret = last.ret
       /\ again.model = Now

\* C35: once a predict has succeeded since the last load, the output of
\* later predicts does not depend on observation.joint_positions: with the
\* same random draws and other joint positions (or none) the chunk and the
\* continuity state are the same; session_id never selects the state.
C35_JointPositionsIgnored ==
   (last.op = "predict" /\ last.err = NoError) =>
      /\ \A sid \in OtherSessions :
            SameAsRun([last.arg EXCEPT !.session_id = sid])
      /\ HasContinuity(last.pre) =>
            /\ SameAsRun(WithNone(last.arg, "joint_positions"))
            /\ \A jp \in OtherJointPositions, sid \in OtherSessions :
                  SameAsRun([last.arg EXCEPT !.joint_positions = jp,
                                             !.session_id = sid])

\* an OpenVLAModel with one entry in its history has returned a chunk for an
\* observation that gives joint positions far from that entry
C35_Witness ==
   /\ last.op = "predict"
   /\ last.err = NoError
   /\ last.pre.kind = "openvla"
   /\ Len(last.pre.action_history) = 1
   /\ Len(last.arg.joint_positions) > 0
   /\ last.arg.joint_positions[1] > One
   /\ last.pre.action_history[1][1] < Frac(5, 10)


\* the 1-based index of the first observation, from observations[k] on,
\* whose predict raises when they are predicted one after the other; 0 if
\* none does
RECURSIVE FailingItem(_, _, _, _)
FailingItem(m, observations, src, k) ==
   IF k > Len(observations)
   THEN 0
   ELSE LET out == predict(m, observations[k], src)
        IN  IF out.err # NoError
            THEN k
            ELSE FailingItem(out.model, observations, src, k + 1)

\* the instance after predict on observations[1 .. n], one after the other
RECURSIVE AfterItems(_, _, _, _)
AfterItems(m, observations, src, n) ==
   IF n = 0
   THEN m
   ELSE predict(AfterItems(m, observations, src, n - 1), observations[n],
                src).model

\* C36: a failed predict_batch is not rolled back: when it fails at its j-th
\* item on a loaded backend with counter c, the j - 1 items before it have
\* committed: the counter is c + (j - 1) and the continuity state is the one
\* item j - 1 left, although no chunk is returned.
C36_BatchNotRolledBack ==
   (/\ last.op = "predict_batch"
    /\ IsGenerating(last.pre)
    /\ last.pre.loaded
    /\ last.err # NoError) =>
      LET j == FailingItem(last.pre, last.arg, last.src, 1)
      IN  /\ j >= 1
          /\ last.ret = NoReturn
          /\ Now.sequence_counter = last.pre.sequence_counter + (j - 1)
          /\ Now = AfterItems(last.pre, last.arg, last.src, j - 1)
          /\ Continuity(Now)
                = Continuity(AfterItems(last.pre, last.arg, last.src, j - 1))

\* a loaded Pi0Model got a list whose first observation it predicted and
\* whose second has no timestamp: its counter has advanced by one
C36_Witness ==
   /\ last.op = "predict_batch"
   /\ last.pre.kind = "pi0"
   /\ last.pre.loaded
   /\ Len(last.arg) >= 2
   /\ last.arg[1].none_attrs = {}
   /\ IsNone(last.arg[2], "timestamp")
   /\ last.err = BadOperand
   /\ Now.sequence_counter = last.pre.sequence_counter + 1
   /\ Now.last_action # last.pre.last_action


\* the list of messages holds one about the model type
HasModelTypeError(errors) ==
   \E k \in 1..Len(errors) : errors[k][1] = "Invalid model_type: "

\* the factory raises its ValueError for the identifier
FactoryRejects(model_type) == create_model(model_type).err.kind = "ValueError"

\* C37: configuration and factory agree on model types: a model_type passes
\* the model-type check of validate if and only if create_model accepts it,
\* so a validated model type never makes the factory raise its
\* unknown-model-type error.
C37_ModelTypesAgree ==
   last.op = "validate" =>
      /\ HasModelTypeError(last.ret[1]) <=> FactoryRejects(last.arg.model_type)
      /\ \A model_type \in ModelTypes :
            HasModelTypeError(validate([last.arg EXCEPT
                                          !.model_type = model_type]))
               <=> FactoryRejects(model_type)

\* a configuration whose model type is spelled in mixed case has passed the
\* model-type check, and the server has built its backend from it
C37_Witness ==
   /\ last.op = "validate"
   /\ last.arg.model_type = <<"P", "i", "0", "_", "6">>
   /\ ~HasModelTypeError(last.ret[1])
   /\ server.pc = "serving"
   /\ models["model"].kind = "pi0"


\* the label tuples whose count differs between the two states of a metric
Changed(after, before) ==
   { l \in DOMAIN after \cup DOMAIN before :
        Count(after, l) # Count(before, l) }

\* the metric went up by one at the label tuple and nowhere else
OneMore(after, before, l) ==
   /\ Changed(after, before) = {l}
   /\ Count(after, l) = Count(before, l) + 1

\* measure_latency has just been used on an enabled collector
Measured == last.op = "measure_latency" /\ last.before.enabled

\* C38 as claimed: with metrics enabled every use of measure_latency records
\* exactly one latency observation and increments exactly one request
\* counter: success if and only if the block returned, error if and only if
\* it raised, and then the exception of the block reaches the caller
\* unchanged.
C38_OneCounterPerUse ==
   Measured =>
      /\ OneMore(metrics.inference_latency, last.before.inference_latency,
                 last.labels)
      /\ OneMore(metrics.requests_total, last.before.requests_total,
                 <<last.labels[1],
                   IF last.raised = NoError THEN "success" ELSE "error">>)
      /\ last.err = last.raised

\* C38 amended: every use records exactly one latency observation and lets
\* the exception of the block through unchanged; it increments the success
\* counter if and only if the block returned and the error counter if and
\* only if the block raised an Exception; when the block raised a
\* BaseException that is not an Exception (KeyboardInterrupt) no request
\* counter is incremented.
C38_OneCounterPerException ==
   Measured =>
      /\ OneMore(metrics.inference_latency, last.before.inference_latency,
                 last.labels)
      /\ last.err = last.raised
      /\ IF last.raised = NoError
         THEN OneMore(metrics.requests_total, last.before.requests_total,
                      <<last.labels[1], "success">>)
         ELSE IF last.raised.kind # "KeyboardInterrupt"
         THEN OneMore(metrics.requests_total, last.before.requests_total,
                      <<last.labels[1], "error">>)
         ELSE metrics.requests_total = last.before.requests_total

\* the collector had counted a success and an error when a measured predict
\* was interrupted: the latency was observed and no counter moved
C38_Witness ==
   /\ Measured
   /\ last.raised = KeyboardInterrupt
   /\ Count(last.before.requests_total, <<last.labels[1], "success">>) > 0
   /\ Count(last.before.requests_total, <<last.labels[1], "error">>) > 0
   /\ Count(metrics.inference_latency, last.labels)
         = Count(last.before.inference_latency, last.labels) + 1

=============================================================================
